---- MODULE Spec2Model ----
(***************************************************************************)
(* Nightshift prompt pipeline: the Prompt Store (records, status counts,   *)
(* in-memory FIFO, persisted JSON document), the single Prompt Worker, the *)
(* Codex runner with its cancel state, and the scope-guarded child.        *)
(* Source: src/backend/server.py, src/scope_guard.py, src/git_branching.py *)
(***************************************************************************)
EXTENDS Integers, Sequences, FiniteSets, TLC

\* ------------------------------------------------------------------ bounds
MaxIds == 2          \* number of prompt ids uuid4 may hand out
MaxClock == 2        \* number of enqueue timestamps (submit / retry) observed
MaxCrashes == 1      \* number of backend restarts
MaxInflight == 2     \* HTTP threads between their lock section and queue.put
MaxIoErrors == 1     \* failed writes of the JSON document
MaxLen == 2          \* characters in the body of an edit
MaxPathLen == 2      \* characters in a path and in a glob pattern of the manifest
MaxPatterns == 1     \* patterns in each list of the manifest
MaxLines == 3        \* command-boundary lines the guard reads from one child
MaxChunks == 1       \* lines of output a child writes to each of its streams
MaxConns == 2        \* WebSocket connections accepted
MaxMsgs == 2         \* client messages read from the connections
MaxBroadcasts == 2   \* broadcasts to all clients
MaxThreads == 1      \* threads that broadcast to all clients: the worker, then HTTP threads

Ids == 1..MaxIds
None == 0            \* Python None for an Optional[str] prompt id

TERMINAL_PROMPT_STATUSES == {"completed", "failed", "canceled"}
PROMPT_STATUSES == {"queued", "running", "completed", "failed", "canceled"}

VARIABLES
    records,          \* PromptStore._records: id -> PromptRecord (dict, insertion order = id order)
    statusCounts,     \* PromptStore._status_counts (Counter; absent key = no entry)
    fifo,             \* PromptStore._pending (queue.Queue of ids)
    disk,             \* the JSON document at db_path
    recovered,        \* PromptStore._recovered_prompt_ids as consume_recovered_prompts hands it to main()
    nextId,           \* next fresh uuid
    clock,            \* utcnow_iso() as a logical clock
    inflight,         \* ids whose add_prompt/retry_prompt left the lock but has not yet put/persisted
    wpc,              \* position of the PromptWorker thread
    wid,              \* PromptWorker.run local prompt_id
    currentPromptId,  \* PromptWorker._current_prompt_id
    restartRequests,  \* PromptWorker._restart_requests
    activePromptId,   \* CodexRunner._active_prompt_id
    activeProcess,    \* CodexRunner._active_process is not None
    cancelTarget,     \* CodexRunner._cancel_target
    cancelSummary,    \* CodexRunner._cancel_summary
    run,              \* locals of CodexRunner.run
    children,         \* number of live child processes spawned by CodexRunner.run
    child,            \* the guarded child: exit code, signal received, guard state
    denyPath,         \* working-tree state of a path the scope rules classify as deny
    crashes,          \* restarts so far
    writers,          \* _persist calls of HTTP threads between serialisation and write_text: the snapshots
    ioErrors,         \* writes of the JSON document that raised OSError so far
    events,           \* envelopes the worker and the runner have broadcast for the prompt in hand
    logs,             \* prompt log files: id -> the attempt blocks appended so far
    manifest,         \* the scope manifest of the project, as CODEX_SCOPE_MANIFEST carries it
    relative,         \* the repo-relative path handed to ScopeGuard.classify_path
    verdict,          \* what classify_path returned for it, Null before the call
    gpc,              \* position of scope_guard.main / GuardedProcess.run
    violationInfo,    \* ScopeGuard._violation_info: the message of the payload, or Null
    guardExit,        \* the exit code of the guard process, Null while it runs
    tally,            \* what the guard has done so far: lines read, scans, declarations, writes, reverts
    conn,             \* WebSocketConnection objects: alive, user, position of serve(), messages read
    clients,          \* WebSocketManager._clients
    inbox,            \* the frames written to each connection's socket, in order
    bc,               \* WebSocketManager.broadcast in progress on each broadcasting thread
    bseq,             \* number of broadcasts each thread has issued so far
    repo,             \* the git repository: commits, branches, HEAD, index and working tree
    discipline,       \* PromptBranchDiscipline: dry_run_mutations, cleanup_enabled, allow_dirty_workspace
    session,          \* the PromptBranchSession the last begin_run returned
    lastCall,         \* the last call of the discipline: its name, its arguments, its outcome
    dq,               \* TaskQueueDisplayManager._queue: the refresh requests waiting
    requester,        \* the threads inside request_refresh: position and request
    attempts,         \* requests made so far; a request's number is its name
    refreshAfter,     \* the number of requests made when the last panel refresh began
    dropped,          \* requests given up after the second queue.Full
    files,            \* the working tree: per path 0 (no file) or its (mtime, size) stamp
    index,            \* git's index: per path 0 (not tracked) or the stamp staged
    baseline,         \* DirtyFileTracker._state
    reported,         \* what scan() returned at each command boundary (history variable)
    changed,          \* paths written, deleted or staged since the baseline was taken (history variable)
    guardViolated,    \* ScopeGuard.violated of the monitor's guard
    durations,        \* PromptStore._recent_durations and the sums and counts kept with it
    observed,         \* the samples appended since the store was built (history variable)
    identity,         \* AgentIdentityManager._identity: 0 for {}, else the agent installed
    pairing,          \* _pairing_state["pairing_code"]: 0 for none, else the code
    caller,           \* the threads inside accept_registration
    succeeded,        \* the calls that returned a bundle (history variable)
    calls,            \* accept_registration calls made
    codes,            \* pairing codes generated so far
    lastEnq,          \* enqueued_at of the record next_prompt_id returned last (history variable)
    hist              \* observations about the current attempt (history variable)

vars == <<records, statusCounts, fifo, disk, recovered, nextId, clock, inflight,
          wpc, wid, currentPromptId, restartRequests, activePromptId, activeProcess,
          cancelTarget, cancelSummary, run, children, child, denyPath, crashes, writers, ioErrors, events, logs,
          manifest, relative, verdict, gpc, violationInfo, guardExit, tally,
          conn, clients, inbox, bc, bseq,
          repo, discipline, session, lastCall,
          dq, requester, attempts, refreshAfter, dropped,
          files, index, baseline, reported, changed, guardViolated,
          durations, observed,
          identity, pairing, caller, succeeded, calls, codes, lastEnq, hist>>

storeVars == <<records, statusCounts, fifo, disk, recovered, nextId, clock, inflight>>
workerVars == <<wpc, wid, currentPromptId, restartRequests>>
runnerVars == <<activePromptId, activeProcess, cancelTarget, cancelSummary, run>>
childVars == <<children, child, denyPath>>
scopeVars == <<manifest, relative, verdict>>
guardVars == <<gpc, violationInfo, guardExit, tally>>
hubVars == <<conn, clients, inbox, bc, bseq>>
gitVars == <<repo, discipline, session, lastCall>>
displayVars == <<dq, requester, attempts, refreshAfter, dropped>>
trackerVars == <<files, index, baseline, reported, changed, guardViolated>>
durationVars == <<durations, observed>>
pairingVars == <<identity, pairing, caller, succeeded, calls, codes>>
extraVars == <<gitVars, displayVars, trackerVars, durationVars, pairingVars>>
otherVars == <<scopeVars, guardVars, hubVars, extraVars>>      \* what the backend's own steps leave alone
backendVars == <<storeVars, workerVars, runnerVars, childVars,
                 crashes, writers, ioErrors, events, logs, lastEnq, hist>>

\* ------------------------------------------------------------ PromptRecord
Null == "null"
OriginalText == <<"o">>     \* the text a prompt is submitted with
Ts == "ts"

PromptRecord(now) ==
    [status |-> "queued", attempts |-> 0, enqueued_at |-> now, text |-> OriginalText,
     started_at |-> Null, current_wait_seconds |-> Null, last_finished_at |-> Null,
     result_summary |-> Null]

\* dict helpers
Put(d, k, v) == [i \in (DOMAIN d) \cup {k} |-> IF i = k THEN v ELSE d[i]]
Pop(d, k) == [i \in (DOMAIN d) \ {k} |-> d[i]]
EmptyDict == [i \in {} |-> 0]

\* ------------------------------------------------------------ status counts
_increment_status(counts, status) ==
    Put(counts, status, (IF status \in DOMAIN counts THEN counts[status] ELSE 0) + 1)

\* variant: the entry is kept at zero instead of being popped
_decrement_status_keeps_zero(counts, status) ==
    Put(counts, status, (IF status \in DOMAIN counts THEN counts[status] ELSE 0) - 1)

_decrement_status(counts, status) ==
    LET current == (IF status \in DOMAIN counts THEN counts[status] ELSE 0) - 1
    IN  IF current <= 0 THEN Pop(counts, status) ELSE Put(counts, status, current)

\* _change_status: returns the new counter; the record's status is set by the caller
_change_status(counts, old, new) ==
    IF old = new THEN counts
    ELSE _increment_status(_decrement_status(counts, old), new)

\* ------------------------------------------------------------------ _update
\* PromptStore._update(prompt_id, status=new, result_summary=summary). Its callers
\* (mark_completed, mark_failed, mark_canceled, _recover_inflight_prompts) pass
\* terminal statuses only, so the enqueued_at assignment of the queued branch
\* needs no timestamp argument here.
UpdateRecord(rec, new, summary) ==
    LET r1 == [rec EXCEPT !.status = new]
        r2 == IF new = "queued"
                THEN [r1 EXCEPT !.started_at = Null, !.current_wait_seconds = Null]
              ELSE IF new = "running"
                THEN [r1 EXCEPT !.started_at = Ts, !.current_wait_seconds = Null]
              ELSE IF rec.status = "running"
                THEN [r1 EXCEPT !.last_finished_at = Ts, !.started_at = Null,
                                !.current_wait_seconds = Null]
              ELSE r1
        r3 == [r2 EXCEPT !.result_summary = summary]
    IN  IF new \in TERMINAL_PROMPT_STATUSES /\ r3.last_finished_at = Null
          THEN [r3 EXCEPT !.last_finished_at = Ts]
          ELSE r3

\* ------------------------------------------------------------------- _load
RECURSIVE LoadCounts(_, _)
LoadCounts(doc, ids) ==
    IF ids = {} THEN EmptyDict
    ELSE LET m == CHOOSE i \in ids : \A j \in ids : j <= i
         IN  _increment_status(LoadCounts(doc, ids \ {m}), doc[m].status)

\* ids of the document with the given status, in document (insertion) order
RECURSIVE IdsWithStatus(_, _, _)
IdsWithStatus(doc, ids, status) ==
    IF ids = {} THEN <<>>
    ELSE LET m == CHOOSE i \in ids : \A j \in ids : i <= j
             rest == IdsWithStatus(doc, ids \ {m}, status)
         IN  IF doc[m].status = status THEN <<m>> \o rest ELSE rest

InterruptedSummary == "Prompt interrupted when backend restarted; marked as failed"

\* variant: stale running records are left as loaded
_recover_inflight_prompts_skipped(doc) == doc

\* _recover_inflight_prompts: every stale running record goes through _update
_recover_inflight_prompts(doc) ==
    [i \in DOMAIN doc |->
        IF doc[i].status = "running"
          THEN UpdateRecord(doc[i], "failed", InterruptedSummary)
          ELSE doc[i]]

\* variant: no attempt block is written for an interrupted record
_append_interrupted_attempt_none(lg, stale) == lg

\* _append_interrupted_attempt for every stale running record: one block is
\* appended to the record's log file
_append_interrupted_attempt(lg, stale) ==
    [i \in DOMAIN lg |->
        IF \E k \in 1..Len(stale) : stale[k] = i
          THEN Append(lg[i], "interrupted") ELSE lg[i]]

RECURSIVE RecoverCounts(_, _, _)
RecoverCounts(counts, doc, stale) ==
    IF stale = <<>> THEN counts
    ELSE RecoverCounts(_change_status(counts, doc[Head(stale)].status, "failed"),
                       doc, Tail(stale))

\* ------------------------------------------------------------------- state
RunInit == [skip |-> FALSE, session |-> FALSE, success |-> TRUE,
            summary |-> "Codex run succeeded", canceled |-> FALSE,
            cleanup_error |-> FALSE, violation |-> Null]
ChildInit == [code |-> 0, signalled |-> FALSE, violated |-> Null]
HistInit == [preCancel |-> FALSE,   \* a cancel was accepted before the pre-spawn checkpoint
             before |-> 0,           \* the attempt counter when the id was taken
             spawned |-> FALSE,      \* a child was spawned for the attempt
             stored |-> "",          \* the summary of the last accepted cancel
             selfExit |-> FALSE]     \* the child exited with no cancel accepted and no guard action

InitBackend ==
    /\ records = EmptyDict
    /\ statusCounts = EmptyDict
    /\ fifo = <<>>
    /\ disk = EmptyDict
    /\ recovered = <<>>
    /\ nextId = 1
    /\ clock = 0
    /\ inflight = <<>>
    /\ wpc = "idle"
    /\ wid = None
    /\ currentPromptId = None
    /\ restartRequests = {}
    /\ activePromptId = None
    /\ activeProcess = FALSE
    /\ cancelTarget = None
    /\ cancelSummary = ""
    /\ run = RunInit
    /\ children = 0
    /\ child = ChildInit
    /\ denyPath = "clean"
    /\ crashes = 0
    /\ events = <<>>
    /\ writers = <<>>
    /\ ioErrors = 0
    /\ logs = [i \in Ids |-> <<>>]
    /\ lastEnq = 0
    /\ hist = HistInit

\* the fallback manifest (allow "**") and nothing classified yet
InitScopeIdle ==
    /\ manifest = [allow |-> << <<"*", "*">> >>, deny |-> <<>>, log_only |-> <<>>]
    /\ relative = <<>>
    /\ verdict = Null

TallyInit == [lines |-> 0, scans |-> 0, declared |-> 0, logWrites |-> 0,
              statusWrites |-> 0, reverts |-> 0]

\* a guard process that has just been started
InitGuardProcess ==
    /\ gpc = "main"
    /\ violationInfo = Null
    /\ guardExit = Null
    /\ tally = TallyInit

Conns == 1..MaxConns
Threads == 1..MaxThreads

ConnInit == [alive |-> FALSE, user |-> Null, pc |-> "new", msgs |-> 0]
BcIdle == [active |-> FALSE, type |-> Null, seq |-> 0, recipients |-> <<>>, i |-> 0,
           dead |-> {}, eligible |-> {}]

\* WebSocketManager.__init__: no client yet, no broadcast under way
InitHub ==
    /\ conn = [c \in Conns |-> ConnInit]
    /\ clients = {}
    /\ inbox = [c \in Conns |-> <<>>]
    /\ bc = [t \in Threads |-> BcIdle]
    /\ bseq = [t \in Threads |-> 0]

\* ---------------------------------------------------------- git repository
MaxCommits == 4      \* commits the repository holds
MaxContent == 2      \* contents of the tracked file: 0 is "no file"

BaseBranch == "dev"
PromptBranch == "prompt"                  \* <prefix>-<prompt_id>-<slug>
BranchNames == {BaseBranch, PromptBranch}
Contents == 0..MaxContent

\* the repository of the tests: one commit, dev on it and checked out; branch -> commit (0: no such branch), commit -> parent and tree
RepoInit ==
    [commits |-> <<[parent |-> 0, tree |-> 1]>>,
     branch |-> [b \in BranchNames |-> IF b = PromptBranch THEN 0 ELSE 1],
     head |-> BaseBranch,
     work |-> 1,               \* index and working tree
     conflict |-> FALSE,       \* unmerged paths in the index
     reverting |-> FALSE]      \* REVERT_HEAD exists

NoSession == [active |-> FALSE, base_commit |-> 0]
NoCall == [op |-> "none", raised |-> FALSE, given |-> <<>>, commits |-> <<>>,
           rollback_commit |-> 0]

InitGitIdle ==
    /\ repo = RepoInit
    /\ discipline = [dry_run_mutations |-> FALSE, cleanup_enabled |-> TRUE,
                     allow_dirty_workspace |-> FALSE]
    /\ session = NoSession
    /\ lastCall = NoCall

\* ------------------------------------------------------ display refresh queue
QueueMax == 2        \* queue.Queue(maxsize=5), scaled down
MaxRequesters == 2   \* threads that call request_refresh
MaxRequests == 7     \* calls of request_refresh

Requesters == 1..MaxRequesters

\* TaskQueueDisplayManager.__init__: an empty queue, nobody inside request_refresh
InitDisplay ==
    /\ dq = <<>>
    /\ requester = [t \in Requesters |-> [pc |-> "idle", id |-> 0]]
    /\ attempts = 0
    /\ refreshAfter = 0
    /\ dropped = {}

\* ------------------------------------------------------ dirty-file tracker
MaxStamp == 2        \* distinct (mtime, size) states of a file
MaxBoundaries == 2   \* command-boundary lines the monitor sees

ScanPaths == {"a", "b"}
DenyPaths == {"b"}   \* the paths the manifest denies
Stamps == 0..MaxStamp
Absent == 0 - 1      \* the path has no entry in a snapshot

\* DirtyFileTracker._file_state: (False, 0, 0) is stamp 0
_file_state(f, path) == f[path]

\* DirtyFileTracker._snapshot: the paths git ls-files lists as modified,
\* untracked or deleted (the file differs from the index), with their state
_snapshot(f, ix) ==
    [path \in ScanPaths |-> IF f[path] # ix[path] THEN _file_state(f, path) ELSE Absent]

\* a clean tree and a tracker built on it
InitTrackerIdle ==
    /\ files = [path \in ScanPaths |-> 1]
    /\ index = files
    /\ baseline = _snapshot(files, index)
    /\ reported = <<>>
    /\ changed = {}
    /\ guardViolated = FALSE

\* ------------------------------------------------------ duration window
DurationWindow == 2  \* PROMPT_DURATION_WINDOW = 50, scaled down
MaxSamples == 4      \* samples appended to one store
MaxSeconds == 1      \* wait and run values are 0..MaxSeconds, or null

\* PromptStore.__init__: the deque and its sums and counts
NoDurations == [samples |-> <<>>, wait_sum |-> 0, run_sum |-> 0,
                wait_count |-> 0, run_count |-> 0]

\* a store built on an empty document
InitDurationsIdle ==
    /\ durations = NoDurations
    /\ observed = <<>>

\* ------------------------------------------------------ agent identity
MaxCallers == 2      \* threads that call accept_registration
MaxCalls == 3        \* accept_registration calls
MaxCodes == 2        \* pairing codes generated

Callers == 1..MaxCallers

\* AgentIdentityManager.__init__ with no identity file: _ensure_pairing_state
\* has generated the first pairing code
InitPairing ==
    /\ identity = 0
    /\ pairing = 1
    /\ caller = [t \in Callers |-> [pc |-> "idle", code |-> 0]]
    /\ succeeded = {}
    /\ calls = 0
    /\ codes = 1

InitExtra == InitGitIdle /\ InitDisplay /\ InitTrackerIdle /\ InitDurationsIdle /\ InitPairing

Init == InitBackend /\ InitScopeIdle /\ InitGuardProcess /\ InitHub /\ InitExtra

\* ------------------------------------------------------- store operations
\* str.strip() on a text held as a sequence of characters
RECURSIVE lstrip(_)
lstrip(t) == IF t # <<>> /\ Head(t) = " " THEN lstrip(Tail(t)) ELSE t

RECURSIVE rstrip(_)
rstrip(t) == IF t # <<>> /\ t[Len(t)] = " " THEN rstrip(SubSeq(t, 1, Len(t) - 1)) ELSE t

strip(t) == rstrip(lstrip(t))

\* the request bodies a submit is tried with: blanks around at most one word
SubmitTexts ==
    {t \in UNION {[1..n -> {" ", "o"}] : n \in 0..MaxLen} :
        Cardinality({i \in DOMAIN t : t[i] = "o"}) <= 1}

\* variant: only the empty body is refused
SubmitRejection_empty_only(text) == IF text = <<>> THEN "400" ELSE Null

\* _handle_api_post, /api/prompts: the status of the error answer, or Null
SubmitRejection(text) == IF strip(text) = <<>> THEN "400" ELSE Null

\* _handle_api_post and add_prompt, lock section: the record is created with
\* the trimmed text and counted
add_prompt(text) ==
    /\ UNCHANGED otherVars
    /\ SubmitRejection(text) = Null
    /\ nextId <= MaxIds
    /\ clock < MaxClock
    /\ Len(inflight) < MaxInflight
    /\ clock' = clock + 1
    /\ records' = Put(records, nextId, [PromptRecord(clock + 1) EXCEPT !.text = strip(text)])
    /\ statusCounts' = _increment_status(statusCounts, "queued")
    /\ nextId' = nextId + 1
    /\ inflight' = Append(inflight, nextId)
    /\ UNCHANGED <<fifo, disk, recovered, crashes, events, writers, ioErrors, logs, lastEnq, hist>>
    /\ UNCHANGED <<workerVars, runnerVars, childVars>>

\* variant: the record keeps the enqueued_at of its previous round
RetryLocked_keeps_enqueued_at(recs, id, now) ==
    Put(recs, id, [recs[id] EXCEPT !.status = "queued", !.started_at = Null,
                                   !.current_wait_seconds = Null])

\* retry_prompt, lock section
RetryLocked(recs, id, now) ==
    Put(recs, id, [recs[id] EXCEPT !.status = "queued", !.enqueued_at = now,
                                   !.started_at = Null, !.current_wait_seconds = Null])

retry_prompt(id) ==
    /\ UNCHANGED otherVars
    /\ id \in DOMAIN records
    /\ records[id].status # "running"
    /\ clock < MaxClock
    /\ Len(inflight) < MaxInflight
    /\ clock' = clock + 1
    /\ records' = RetryLocked(records, id, clock + 1)
    /\ statusCounts' = _change_status(statusCounts, records[id].status, "queued")
    /\ inflight' = Append(inflight, id)
    /\ UNCHANGED <<fifo, disk, recovered, nextId, crashes, events, writers, ioErrors, logs, lastEnq, hist>>
    /\ UNCHANGED <<workerVars, runnerVars, childVars>>

\* the tail of add_prompt / retry_prompt: self._pending.put(id); self._persist()
PutAndPersist(k) ==
    /\ UNCHANGED otherVars
    /\ k \in 1..Len(inflight)
    /\ fifo' = Append(fifo, inflight[k])
    /\ inflight' = SubSeq(inflight, 1, k - 1) \o SubSeq(inflight, k + 1, Len(inflight))
    /\ disk' = records
    /\ UNCHANGED <<records, statusCounts, recovered, nextId, clock, crashes, events, writers, ioErrors, logs, lastEnq, hist>>
    /\ UNCHANGED <<workerVars, runnerVars, childVars>>

\* the request bodies an edit is tried with
EditTexts == UNION {[1..n -> {" ", "e"}] : n \in 0..MaxLen}

\* variant: every record that is not running may be edited
EditRejection_unless_running(recs, id, normalized) ==
    IF normalized = <<>> THEN "ValueError"
    ELSE IF id \notin DOMAIN recs THEN "KeyError"
    ELSE IF recs[id].status = "running" THEN "ValueError"
    ELSE Null

\* edit_prompt, the checks before the assignment: the exception raised, or Null
EditRejection(recs, id, normalized) ==
    IF normalized = <<>> THEN "ValueError"
    ELSE IF id \notin DOMAIN recs THEN "KeyError"
    ELSE IF recs[id].status # "queued" THEN "ValueError"
    ELSE Null

edit_prompt(id, new_text) ==
    /\ UNCHANGED otherVars
    /\ EditRejection(records, id, strip(new_text)) = Null
    /\ records' = Put(records, id, [records[id] EXCEPT !.text = strip(new_text)])
    /\ disk' = records'
    /\ UNCHANGED <<statusCounts, fifo, recovered, nextId, clock, inflight, crashes, events, writers, ioErrors, logs, lastEnq, hist>>
    /\ UNCHANGED <<workerVars, runnerVars, childVars>>

\* variant: any record that exists may be deleted
DeleteRejection_existence_only(recs, id) ==
    IF id \notin DOMAIN recs THEN "KeyError" ELSE Null

\* delete_prompt, the checks under the lock: the exception raised, or Null
DeleteRejection(recs, id) ==
    IF id \notin DOMAIN recs THEN "KeyError"
    ELSE IF recs[id].status # "queued" THEN "ValueError"
    ELSE Null

delete_prompt(id) ==
    /\ UNCHANGED otherVars
    /\ DeleteRejection(records, id) = Null
    /\ records' = Pop(records, id)
    /\ statusCounts' = _decrement_status(statusCounts, records[id].status)
    /\ disk' = records'
    /\ logs' = [logs EXCEPT ![id] = <<>>]       \* log_path.unlink(missing_ok=True)
    /\ UNCHANGED <<fifo, recovered, nextId, clock, inflight, crashes, events, writers, ioErrors, lastEnq, hist>>
    /\ UNCHANGED <<workerVars, runnerVars, childVars>>

\* ------------------------------------------------------------ begin_attempt
\* variant: the attempt starts without a start time
begin_attempt_keeps_started_at(recs, id) ==
    Put(recs, id, [recs[id] EXCEPT !.attempts = @ + 1, !.status = "running",
                                   !.current_wait_seconds = "wait"])

begin_attempt(recs, id) ==
    Put(recs, id, [recs[id] EXCEPT !.attempts = @ + 1, !.status = "running",
                                   !.started_at = Ts, !.current_wait_seconds = "wait"])

\* ------------------------------------------------------------- envelopes
Envelope(type, status) == [type |-> type, status |-> status, stream |-> Null]

\* a prompt_stream envelope: the stream, and reset / done / chunk for its payload
Frame(stream, flag) == [type |-> "prompt_stream", status |-> flag, stream |-> stream]

\* EventStreamer.broadcast_prompt: the envelope carries the record as it is
\* now; no envelope when the record is gone
broadcast_prompt(recs, id) ==
    IF id \in DOMAIN recs THEN <<Envelope("prompt_update", recs[id].status)>> ELSE <<>>

\* PromptWorker._emit_updates: broadcast_queue, broadcast_prompt, broadcast_health
_emit_updates(ev, recs, id) ==
    ev \o <<Envelope("queue_snapshot", Null)>> \o broadcast_prompt(recs, id)
       \o <<Envelope("health", Null)>>

\* CodexRunner._broadcast_stream on stdout and on stderr
StreamFrames(flag) == <<Frame("stdout", flag), Frame("stderr", flag)>>

\* ------------------------------------------------------------ PromptWorker
\* run(): next_prompt_id, get_prompt, arm_prompt, _current_prompt_id = prompt_id
W_take ==
    /\ UNCHANGED otherVars
    /\ wpc = "idle"
    /\ fifo # <<>>
    /\ fifo' = Tail(fifo)
    /\ IF Head(fifo) \in DOMAIN records
         THEN /\ wid' = Head(fifo)
              /\ activePromptId' = Head(fifo)
              /\ currentPromptId' = Head(fifo)
              /\ wpc' = "armed"
              /\ hist' = [HistInit EXCEPT !.before = records[Head(fifo)].attempts]
              /\ lastEnq' = records[Head(fifo)].enqueued_at
              /\ events' = <<>>
         ELSE UNCHANGED <<wid, activePromptId, currentPromptId, wpc, hist, lastEnq, events>>
    /\ UNCHANGED <<records, statusCounts, disk, recovered, nextId, clock, inflight, crashes, writers, ioErrors, logs>>
    /\ UNCHANGED <<restartRequests, activeProcess, cancelTarget, cancelSummary, run>>
    /\ UNCHANGED childVars

\* run(): record = self.store.begin_attempt(prompt_id), then _emit_updates; a
\* KeyError ends the thread
W_begin ==
    /\ UNCHANGED otherVars
    /\ wpc = "armed"
    /\ IF wid \in DOMAIN records
         THEN /\ records' = begin_attempt(records, wid)
              /\ statusCounts' = _change_status(statusCounts, records[wid].status, "running")
              /\ disk' = records'
              /\ events' = _emit_updates(events, records', wid)
              /\ wpc' = "begun"
         ELSE /\ wpc' = "dead"
              /\ UNCHANGED <<records, statusCounts, disk, events>>
    /\ UNCHANGED <<fifo, recovered, nextId, clock, inflight, crashes, writers, ioErrors, logs, lastEnq, hist>>
    /\ UNCHANGED <<wid, currentPromptId, restartRequests>>
    /\ UNCHANGED <<runnerVars, childVars>>

\* ------------------------------------------------------------- CodexRunner
\* variant: the checkpoint does not look at the pending cancel
SkipExecution_ignored == FALSE

\* run(): skip_execution = self._cancel_target == prompt_id
SkipExecution == cancelTarget = wid

\* run(): the reset frames, then the pre-spawn checkpoint under the runner
\* lock; the status file of a previous run is unlinked before them
R_checkpoint ==
    /\ UNCHANGED otherVars
    /\ wpc = "begun"
    /\ events' = events \o StreamFrames("reset")
    /\ activePromptId' = wid
    /\ child' = ChildInit
    /\ IF SkipExecution
         THEN /\ run' = [RunInit EXCEPT !.skip = TRUE, !.success = FALSE,
                            !.summary = IF cancelSummary # "" THEN cancelSummary
                                        ELSE "Codex run canceled before execution"]
              /\ wpc' = "exited"
         ELSE /\ run' = RunInit
              /\ wpc' = "checked"
    /\ UNCHANGED <<storeVars, crashes, writers, ioErrors, logs, lastEnq, hist>>
    /\ UNCHANGED <<wid, currentPromptId, restartRequests>>
    /\ UNCHANGED <<activeProcess, cancelTarget, cancelSummary>>
    /\ UNCHANGED <<children, denyPath>>

\* PromptBranchDiscipline.begin_run: a session, a GitBranchError (dirty tree,
\* missing base branch), or any other exception, which leaves run()
BeginRunOutcomes ==
    IF denyPath = "dirty" THEN {"GitBranchError", "raise"}
    ELSE {"session", "GitBranchError", "raise"}

R_begin_run ==
    /\ UNCHANGED otherVars
    /\ wpc = "checked"
    /\ \E outcome \in BeginRunOutcomes :
         \/ /\ outcome = "session"
            /\ run' = [run EXCEPT !.session = TRUE]
            /\ wpc' = "prepared"
            /\ denyPath' = "clean"
            /\ UNCHANGED <<currentPromptId, events>>
         \/ /\ outcome = "GitBranchError"
            /\ run' = [run EXCEPT !.success = FALSE,
                                  !.summary = "Git branch preparation failed"]
            /\ wpc' = "exited"
            /\ events' = Append(events, Frame("stderr", "reset"))
            /\ UNCHANGED <<currentPromptId, denyPath>>
         \/ /\ outcome = "raise"
            /\ wpc' = "dead"
            /\ currentPromptId' = None
            /\ UNCHANGED <<run, denyPath, events>>
    /\ UNCHANGED <<storeVars, crashes, writers, ioErrors, logs, lastEnq, hist>>
    /\ UNCHANGED <<wid, restartRequests>>
    /\ UNCHANGED <<activePromptId, activeProcess, cancelTarget, cancelSummary>>
    /\ UNCHANGED <<children, child>>

\* run(): subprocess.Popen and the publication of the handle, or FileNotFoundError
R_spawn ==
    /\ UNCHANGED otherVars
    /\ wpc = "prepared"
    /\ \/ /\ children' = children + 1
          /\ activeProcess' = TRUE
          /\ wpc' = "running"
          /\ hist' = [hist EXCEPT !.spawned = TRUE]
          /\ UNCHANGED run
          /\ UNCHANGED events
       \/ /\ run' = [run EXCEPT !.success = FALSE,
                                !.summary = "Codex CLI not found; logged placeholder output"]
          /\ wpc' = "exited"
          /\ events' = Append(events, Frame("stderr", "reset"))
          /\ UNCHANGED <<children, activeProcess, hist>>
    /\ UNCHANGED <<storeVars, crashes, writers, ioErrors, logs, lastEnq>>
    /\ UNCHANGED <<wid, currentPromptId, restartRequests>>
    /\ UNCHANGED <<activePromptId, cancelTarget, cancelSummary>>
    /\ UNCHANGED <<child, denyPath>>

\* the frames of one stream among the envelopes sent
RECURSIVE FramesOf(_, _)
FramesOf(ev, stream) ==
    IF ev = <<>> THEN <<>>
    ELSE (IF Head(ev).type = "prompt_stream" /\ Head(ev).stream = stream
            THEN <<Head(ev)>> ELSE <<>>) \o FramesOf(Tail(ev), stream)

Chunks(ev, stream) ==
    Cardinality({k \in DOMAIN ev : ev[k] = Frame(stream, "chunk")})

\* run(), _pump on one stream: a line of the child's output is buffered and
\* broadcast; both pumps are joined before run() goes on
R_pump(stream) ==
    /\ UNCHANGED otherVars
    /\ wpc = "running"
    /\ Chunks(events, stream) < MaxChunks
    /\ events' = Append(events, Frame(stream, "chunk"))
    /\ UNCHANGED <<storeVars, crashes, writers, ioErrors, logs, lastEnq, hist>>
    /\ UNCHANGED <<workerVars, runnerVars, childVars>>

\* ------------------------------------------------- the scope-guarded child
ChildAlive == children > 0

\* the Agent CLI writes to a path the scope rules deny
ChildModifyDeny ==
    /\ UNCHANGED otherVars
    /\ ChildAlive
    /\ denyPath # "dirty"
    /\ denyPath' = "dirty"
    /\ UNCHANGED <<storeVars, crashes, events, writers, ioErrors, logs, lastEnq, hist, workerVars, runnerVars, children, child>>

\* the Agent CLI commits its edit on the prompt branch
ChildCommit ==
    /\ UNCHANGED otherVars
    /\ ChildAlive
    /\ denyPath = "dirty"
    /\ denyPath' = "committed"
    /\ UNCHANGED <<storeVars, crashes, events, writers, ioErrors, logs, lastEnq, hist, workerVars, runnerVars, children, child>>

\* DirtyFileTracker.scan as seen for the deny path: git ls-files reports only
\* uncommitted modifications, untracked and deleted files
ScanFindsDeny == denyPath = "dirty"

\* CommandMonitor.process_line on a command-boundary line
process_line ==
    /\ UNCHANGED otherVars
    /\ ChildAlive
    /\ child.violated = Null
    /\ \/ /\ ScanFindsDeny              \* handle_violation: status file, revert, terminate
          /\ child' = [child EXCEPT !.violated = "Scope guard blocked"]
          /\ denyPath' = "clean"
       \/ /\ child' = [child EXCEPT !.violated = "Scope guard error"]
          /\ UNCHANGED denyPath         \* scan raised RuntimeError: handle_guard_failure
    /\ UNCHANGED <<storeVars, crashes, events, writers, ioErrors, logs, lastEnq, hist, workerVars, runnerVars, children>>

\* the child exits (by itself or on a signal); the guard maps a violation to 86
ChildExit(code) ==
    /\ UNCHANGED otherVars
    /\ ChildAlive
    /\ children' = children - 1
    /\ child' = [child EXCEPT !.code = IF child.violated # Null THEN 86 ELSE code]
    /\ hist' = [hist EXCEPT !.selfExit = cancelTarget # wid /\ child.violated = Null]
    /\ UNCHANGED <<storeVars, crashes, events, writers, ioErrors, logs, lastEnq, workerVars, runnerVars, denyPath>>

\* run(): process.wait(), the pump joins, and the finally block
R_wait ==
    /\ UNCHANGED otherVars
    /\ wpc = "running"
    /\ ~ChildAlive
    /\ run' = IF child.code # 0
                THEN [run EXCEPT !.success = FALSE, !.summary = "Codex failed with exit code"]
                ELSE run
    /\ activeProcess' = FALSE
    /\ wpc' = "exited"
    /\ UNCHANGED <<storeVars, crashes, events, writers, ioErrors, logs, lastEnq, hist>>
    /\ UNCHANGED <<wid, currentPromptId, restartRequests>>
    /\ UNCHANGED <<activePromptId, cancelTarget, cancelSummary>>
    /\ UNCHANGED childVars

\* PromptBranchDiscipline.finalize_run on the session: a dirty tree is refused,
\* a fast-forward of new commits may fail, an untouched branch always cleans up
FinalizeErrors ==
    IF ~run.session THEN {FALSE}
    ELSE IF denyPath = "dirty" THEN {TRUE}
    ELSE IF denyPath = "committed" THEN {FALSE, TRUE}
    ELSE {FALSE}

\* run(): the scope-guard status file is read and removed, then finalize_run
R_finalize ==
    /\ UNCHANGED otherVars
    /\ wpc = "exited"
    /\ \E err \in FinalizeErrors :
         run' = [run EXCEPT !.violation = child.violated, !.cleanup_error = err]
    /\ wpc' = "finalized"
    /\ UNCHANGED <<storeVars, crashes, events, writers, ioErrors, logs, lastEnq, hist>>
    /\ UNCHANGED <<wid, currentPromptId, restartRequests>>
    /\ UNCHANGED <<activePromptId, activeProcess, cancelTarget, cancelSummary>>
    /\ UNCHANGED childVars

\* f"{summary}; cleanup failed" for the summaries a canceled run can carry
WithCleanupFailed(summary) ==
    CASE summary = "Prompt canceled by operator" ->
            "Prompt canceled by operator; cleanup failed"
      [] summary = "Prompt canceled; restart requested" ->
            "Prompt canceled; restart requested; cleanup failed"
      [] OTHER -> "canceled; cleanup failed"

\* run(): how (summary, success, canceled) are decided once the run is over
Outcome(r, canceled, cancel_summary) ==
    LET s1 == IF canceled THEN (IF cancel_summary # "" THEN cancel_summary ELSE r.summary)
              ELSE IF r.violation # Null THEN r.violation
              ELSE r.summary
        ok1 == r.success /\ ~canceled /\ r.violation = Null
    IN  [r EXCEPT !.canceled = canceled,
                  !.success = ok1 /\ ~r.cleanup_error,
                  !.summary = IF r.cleanup_error
                                THEN (IF canceled THEN WithCleanupFailed(s1)
                                      ELSE "Prompt branch cleanup failed")
                                ELSE s1]

\* run(): the final section under the runner lock
R_decide ==
    /\ UNCHANGED otherVars
    /\ wpc = "finalized"
    /\ run' = Outcome(run, cancelTarget = wid, cancelSummary)
    /\ IF cancelTarget = wid
         THEN cancelTarget' = None /\ cancelSummary' = ""
         ELSE UNCHANGED <<cancelTarget, cancelSummary>>
    /\ activePromptId' = None
    /\ wpc' = "decided"
    /\ UNCHANGED <<storeVars, crashes, events, writers, ioErrors, logs, lastEnq, hist>>
    /\ UNCHANGED <<wid, currentPromptId, restartRequests>>
    /\ UNCHANGED activeProcess
    /\ UNCHANGED childVars

\* run(): the attempt block is appended to the prompt log (an OSError leaves
\* run() and PromptWorker.run, whose finally clears _current_prompt_id)
R_log ==
    /\ UNCHANGED otherVars
    /\ wpc = "decided"
    /\ \/ /\ wpc' = "returned"
          /\ logs' = [logs EXCEPT ![wid] = Append(@, "attempt")]
          /\ events' = events \o StreamFrames("done")
       \/ /\ wpc' = "dead"
          /\ UNCHANGED <<logs, events>>
    /\ currentPromptId' = None
    /\ UNCHANGED <<storeVars, crashes, writers, ioErrors, lastEnq, hist>>
    /\ UNCHANGED <<wid, restartRequests>>
    /\ UNCHANGED runnerVars
    /\ UNCHANGED childVars

\* the status PromptWorker.run records for (success, canceled)
AttemptStatus(r) ==
    IF r.canceled THEN "canceled" ELSE IF r.success THEN "completed" ELSE "failed"

\* PromptWorker.run: mark_canceled / mark_completed / mark_failed
W_mark ==
    /\ UNCHANGED otherVars
    /\ wpc = "returned"
    /\ IF wid \in DOMAIN records
         THEN /\ records' = Put(records, wid,
                                UpdateRecord(records[wid], AttemptStatus(run), run.summary))
              /\ statusCounts' = _change_status(statusCounts, records[wid].status,
                                                AttemptStatus(run))
              /\ disk' = records'
              /\ wpc' = IF run.canceled /\ wid \in restartRequests THEN "requeue" ELSE "emit"
         ELSE /\ wpc' = "dead"
              /\ UNCHANGED <<records, statusCounts, disk>>
    /\ restartRequests' = restartRequests \ {wid}
    /\ run' = RunInit
    /\ child' = ChildInit
    /\ hist' = IF wpc' = "requeue" THEN hist ELSE HistInit
    /\ denyPath' = IF denyPath = "committed" THEN "clean" ELSE denyPath
    /\ UNCHANGED <<fifo, recovered, nextId, clock, inflight, crashes, events, writers, ioErrors, logs, lastEnq>>
    /\ UNCHANGED <<wid, currentPromptId, children>>
    /\ UNCHANGED <<activePromptId, activeProcess, cancelTarget, cancelSummary>>

\* PromptWorker.run: self.store.retry_prompt(prompt_id) after a cancel with restart
W_requeue ==
    /\ UNCHANGED otherVars
    /\ wpc = "requeue"
    /\ IF wid \notin DOMAIN records
         THEN /\ wpc' = "dead"                  \* KeyError is not caught
              /\ UNCHANGED <<records, statusCounts, fifo, disk, clock>>
         ELSE IF records[wid].status = "running"
         THEN /\ wpc' = "emit"                  \* ValueError is caught and logged
              /\ UNCHANGED <<records, statusCounts, fifo, disk, clock>>
         ELSE /\ clock < MaxClock
              /\ clock' = clock + 1
              /\ records' = RetryLocked(records, wid, clock + 1)
              /\ statusCounts' = _change_status(statusCounts, records[wid].status, "queued")
              /\ fifo' = Append(fifo, wid)
              /\ disk' = records'
              /\ wpc' = "emit"
    /\ hist' = HistInit
    /\ UNCHANGED <<recovered, nextId, inflight, crashes, events, writers, ioErrors, logs, lastEnq>>
    /\ UNCHANGED <<wid, currentPromptId, restartRequests>>
    /\ UNCHANGED <<runnerVars, childVars>>

\* PromptWorker.run: the closing self._emit_updates(prompt_id); the loop then
\* starts its next iteration
W_emit ==
    /\ UNCHANGED otherVars
    /\ wpc = "emit"
    /\ events' = <<>>       \* _emit_updates(events, records, wid) has gone out
    /\ wpc' = "idle"
    /\ wid' = None
    /\ UNCHANGED <<storeVars, crashes, writers, ioErrors, logs, lastEnq, hist>>
    /\ UNCHANGED <<currentPromptId, restartRequests>>
    /\ UNCHANGED <<runnerVars, childVars>>

\* ------------------------------------------------------------------ cancel
CancelSummaryFor(restart) ==
    IF restart THEN "Prompt canceled; restart requested" ELSE "Prompt canceled by operator"

\* variant: cancel does not compare the id with the active prompt
CancelAccepted_always(id) == TRUE

\* CodexRunner.cancel accepts the request
CancelAccepted(id) == activePromptId = id

\* POST /api/prompts/{id}/cancel: the handler's status check, then
\* PromptWorker.request_cancel and CodexRunner.cancel
request_cancel(id, restart) ==
    /\ UNCHANGED otherVars
    /\ id \in DOMAIN records
    /\ records[id].status = "running"
    /\ currentPromptId = id
    /\ IF CancelAccepted(id)
         THEN /\ cancelTarget' = id
              /\ cancelSummary' = CancelSummaryFor(restart)
              /\ restartRequests' = IF restart THEN restartRequests \cup {id}
                                    ELSE restartRequests \ {id}
              /\ child' = IF activeProcess /\ ChildAlive
                            THEN [child EXCEPT !.signalled = TRUE] ELSE child
              /\ hist' = [hist EXCEPT !.preCancel = @ \/ wpc \in {"armed", "begun"},
                                      !.stored = CancelSummaryFor(restart)]
         ELSE /\ restartRequests' = restartRequests \ {id}
              /\ UNCHANGED <<cancelTarget, cancelSummary, child, hist>>
    /\ UNCHANGED <<storeVars, crashes, events, writers, ioErrors, logs, lastEnq>>
    /\ UNCHANGED <<wpc, wid, currentPromptId>>
    /\ UNCHANGED <<activePromptId, activeProcess, run>>
    /\ UNCHANGED <<children, denyPath>>

\* ----------------------------------------------------------------- restart
\* the backend host goes down and main() runs again: PromptStore.__init__
\* (_load, _recover_inflight_prompts), consume_recovered_prompts, fresh
\* CodexRunner and PromptWorker; the working tree stays as it was
Restart ==
    /\ UNCHANGED otherVars
    /\ crashes < MaxCrashes
    /\ crashes' = crashes + 1
    /\ LET stale == IdsWithStatus(disk, DOMAIN disk, "running")
       IN  /\ records' = _recover_inflight_prompts(disk)
           /\ statusCounts' = RecoverCounts(LoadCounts(disk, DOMAIN disk), disk, stale)
           /\ fifo' = IdsWithStatus(disk, DOMAIN disk, "queued")
           /\ recovered' = stale
           /\ disk' = IF stale = <<>> THEN disk ELSE records'
           /\ logs' = _append_interrupted_attempt(logs, stale)
    /\ inflight' = <<>>
    /\ wpc' = "idle"
    /\ wid' = None
    /\ currentPromptId' = None
    /\ restartRequests' = {}
    /\ activePromptId' = None
    /\ activeProcess' = FALSE
    /\ cancelTarget' = None
    /\ cancelSummary' = ""
    /\ run' = RunInit
    /\ children' = 0
    /\ child' = ChildInit
    /\ hist' = HistInit
    /\ lastEnq' = 0
    /\ writers' = <<>>
    /\ events' = <<>>
    /\ UNCHANGED <<nextId, clock, denyPath, ioErrors>>

\* ------------------------------------------- _persist: races and failures
\* the tail of add_prompt / retry_prompt up to the serialisation in _persist:
\* self._pending.put(id), then asdict() of every record under the lock
PutAndSnapshot(k) ==
    /\ UNCHANGED otherVars
    /\ k \in 1..Len(inflight)
    /\ fifo' = Append(fifo, inflight[k])
    /\ inflight' = SubSeq(inflight, 1, k - 1) \o SubSeq(inflight, k + 1, Len(inflight))
    /\ writers' = Append(writers, records)
    /\ UNCHANGED <<records, statusCounts, disk, recovered, nextId, clock>>
    /\ UNCHANGED <<crashes, events, ioErrors, logs, lastEnq, hist>>
    /\ UNCHANGED <<workerVars, runnerVars, childVars>>

\* _persist: db_path.write_text of the snapshot, outside the lock
WriteDocument(j) ==
    /\ UNCHANGED otherVars
    /\ j \in 1..Len(writers)
    /\ disk' = writers[j]
    /\ writers' = SubSeq(writers, 1, j - 1) \o SubSeq(writers, j + 1, Len(writers))
    /\ UNCHANGED <<records, statusCounts, fifo, recovered, nextId, clock, inflight>>
    /\ UNCHANGED <<crashes, events, ioErrors, logs, lastEnq, hist>>
    /\ UNCHANGED <<workerVars, runnerVars, childVars>>

\* what write_text leaves behind when it raises OSError: the old document (the
\* open failed), or a truncated file, which _load reads as {} (JSONDecodeError)
PartialWrites(doc) == {doc, EmptyDict}

\* add_prompt / retry_prompt whose _persist raises: the put has happened, the
\* exception reaches the HTTP handler
PutAndPersist_fails(k) ==
    /\ UNCHANGED otherVars
    /\ k \in 1..Len(inflight)
    /\ ioErrors < MaxIoErrors
    /\ ioErrors' = ioErrors + 1
    /\ fifo' = Append(fifo, inflight[k])
    /\ inflight' = SubSeq(inflight, 1, k - 1) \o SubSeq(inflight, k + 1, Len(inflight))
    /\ disk' \in PartialWrites(disk)
    /\ UNCHANGED <<records, statusCounts, recovered, nextId, clock>>
    /\ UNCHANGED <<crashes, events, writers, logs, lastEnq, hist>>
    /\ UNCHANGED <<workerVars, runnerVars, childVars>>

\* edit_prompt whose _persist raises
edit_prompt_fails(id, new_text) ==
    /\ UNCHANGED otherVars
    /\ EditRejection(records, id, strip(new_text)) = Null
    /\ ioErrors < MaxIoErrors
    /\ ioErrors' = ioErrors + 1
    /\ records' = Put(records, id, [records[id] EXCEPT !.text = strip(new_text)])
    /\ disk' \in PartialWrites(disk)
    /\ UNCHANGED <<statusCounts, fifo, recovered, nextId, clock, inflight>>
    /\ UNCHANGED <<crashes, events, writers, logs, lastEnq, hist>>
    /\ UNCHANGED <<workerVars, runnerVars, childVars>>

\* delete_prompt whose _persist raises: the log file is not unlinked
delete_prompt_fails(id) ==
    /\ UNCHANGED otherVars
    /\ DeleteRejection(records, id) = Null
    /\ ioErrors < MaxIoErrors
    /\ ioErrors' = ioErrors + 1
    /\ records' = Pop(records, id)
    /\ statusCounts' = _decrement_status(statusCounts, records[id].status)
    /\ disk' \in PartialWrites(disk)
    /\ UNCHANGED <<fifo, recovered, nextId, clock, inflight>>
    /\ UNCHANGED <<crashes, events, writers, logs, lastEnq, hist>>
    /\ UNCHANGED <<workerVars, runnerVars, childVars>>

\* PromptWorker.run: begin_attempt whose _persist raises; the exception leaves
\* run() before the try block, so _current_prompt_id stays set
W_begin_fails ==
    /\ UNCHANGED otherVars
    /\ wpc = "armed"
    /\ wid \in DOMAIN records
    /\ ioErrors < MaxIoErrors
    /\ ioErrors' = ioErrors + 1
    /\ records' = begin_attempt(records, wid)
    /\ statusCounts' = _change_status(statusCounts, records[wid].status, "running")
    /\ disk' \in PartialWrites(disk)
    /\ wpc' = "dead"
    /\ UNCHANGED <<fifo, recovered, nextId, clock, inflight>>
    /\ UNCHANGED <<crashes, events, writers, logs, lastEnq, hist>>
    /\ UNCHANGED <<wid, currentPromptId, restartRequests>>
    /\ UNCHANGED <<runnerVars, childVars>>

\* ------------------------------------------------------------ scope guard
\* texts are sequences of characters; whitespace and backslashes, which the
\* normalisations also handle, do not occur in the texts drawn here
SeqsUpTo(chars, n) == UNION {[1..k -> chars] : k \in 1..n}

\* the paths git ls-files can report: no leading or trailing slash
GitPaths ==
    {q \in SeqsUpTo({".", "a", "/"}, MaxPathLen) :
        /\ Head(q) # "/" /\ q[Len(q)] # "/"
        /\ \E i \in DOMAIN q : q[i] = "a"
        /\ ~(Len(q) >= 2 /\ q[1] = "." /\ q[2] = "/")}

Patterns == SeqsUpTo({".", "a", "*"}, MaxPathLen)

PatternLists == {<<>>} \cup UNION {[1..k -> Patterns] : k \in 1..MaxPatterns}

Manifests == [allow : PatternLists, deny : PatternLists, log_only : PatternLists]

\* fnmatch.fnmatchcase for literal characters and "*"
RECURSIVE fnmatchcase(_, _)
fnmatchcase(name, pat) ==
    IF pat = <<>> THEN name = <<>>
    ELSE IF Head(pat) = "*"
        THEN fnmatchcase(name, Tail(pat))
             \/ (name # <<>> /\ fnmatchcase(Tail(name), pat))
    ELSE name # <<>> /\ Head(name) = Head(pat) /\ fnmatchcase(Tail(name), Tail(pat))

\* str.lstrip("./"): every leading character that is a dot or a slash goes
RECURSIVE lstrip_dot_slash(_)
lstrip_dot_slash(t) ==
    IF t # <<>> /\ Head(t) \in {".", "/"} THEN lstrip_dot_slash(Tail(t)) ELSE t

\* ScopeGuard._normalize_patterns: patterns that clean to nothing are dropped
RECURSIVE _normalize_patterns(_)
_normalize_patterns(patterns) ==
    IF patterns = <<>> THEN <<>>
    ELSE LET cleaned == lstrip_dot_slash(Head(patterns))
         IN  (IF cleaned # <<>> THEN <<cleaned>> ELSE <<>>)
                \o _normalize_patterns(Tail(patterns))

\* ScopeGuard._normalize_path: leading "./" prefixes go
RECURSIVE _normalize_path(_)
_normalize_path(t) ==
    IF Len(t) >= 2 /\ t[1] = "." /\ t[2] = "/"
        THEN _normalize_path(SubSeq(t, 3, Len(t))) ELSE t

\* ScopeGuard._matches
_matches(rel, patterns) == \E k \in DOMAIN patterns : fnmatchcase(rel, patterns[k])

\* ScopeGuard.__init__: the three normalised pattern lists
ScopeGuard(m) ==
    [allow_patterns |-> _normalize_patterns(m.allow),
     deny_patterns |-> _normalize_patterns(m.deny),
     log_only_patterns |-> _normalize_patterns(m.log_only)]

\* ScopeGuard.classify_path
classify_path(guard, path) ==
    LET rel == _normalize_path(path)
    IN  IF rel = <<>> THEN "deny"
        ELSE IF _matches(rel, guard.deny_patterns) THEN "deny"
        ELSE IF guard.allow_patterns # <<>> /\ ~_matches(rel, guard.allow_patterns) THEN "deny"
        ELSE IF _matches(rel, guard.log_only_patterns) THEN "log_only"
        ELSE "allow"

\* a guard is started with some manifest and is about to classify some path
InitScope ==
    /\ InitBackend
    /\ manifest \in Manifests
    /\ relative \in GitPaths
    /\ verdict = Null
    /\ InitGuardProcess
    /\ InitHub
    /\ InitExtra

\* ScopeGuard.find_violations on one changed path
find_violations ==
    /\ verdict = Null
    /\ verdict' = classify_path(ScopeGuard(manifest), relative)
    /\ UNCHANGED <<manifest, relative, lastEnq, hist, guardVars, hubVars, extraVars>>
    /\ UNCHANGED <<storeVars, workerVars, runnerVars, childVars>>
    /\ UNCHANGED <<crashes, writers, ioErrors, events, logs>>

\* ------------------------------------------- the guard process in detail
\* ScopeGuard.handle_guard_failure: nothing happens once a payload is recorded
handle_guard_failure(info, t) ==
    IF info # Null THEN [info |-> info, tally |-> t]
    ELSE [info |-> "Scope guard error",
          tally |-> [t EXCEPT !.declared = @ + 1, !.statusWrites = @ + 1]]

\* ScopeGuard.handle_violation: payload, violation log, status file, revert
handle_violation(info, t) ==
    IF info # Null THEN [info |-> info, tally |-> t]
    ELSE [info |-> "Scope guard blocked",
          tally |-> [t EXCEPT !.declared = @ + 1, !.logWrites = @ + 1,
                              !.statusWrites = @ + 1, !.reverts = @ + 1]]

\* main(): DirtyFileTracker(repo_root) succeeds, or raises RuntimeError and main
\* returns 86 after handle_guard_failure
G_main ==
    /\ gpc = "main"
    /\ \/ /\ gpc' = "spawn"
          /\ UNCHANGED <<violationInfo, guardExit, tally>>
       \/ LET h == handle_guard_failure(violationInfo, tally)
          IN  /\ violationInfo' = h.info
              /\ tally' = h.tally
              /\ guardExit' = 86
              /\ gpc' = "exited"
    /\ UNCHANGED <<scopeVars, hubVars, extraVars, lastEnq, hist>>
    /\ UNCHANGED <<storeVars, workerVars, runnerVars, childVars>>
    /\ UNCHANGED <<crashes, writers, ioErrors, events, logs>>

\* GuardedProcess.run: Popen of the inner command, the pump threads start
G_spawn ==
    /\ gpc = "spawn"
    /\ gpc' = "running"
    /\ children' = children + 1
    /\ UNCHANGED <<violationInfo, guardExit, tally, child, denyPath>>
    /\ UNCHANGED <<scopeVars, hubVars, extraVars, lastEnq, hist>>
    /\ UNCHANGED <<storeVars, workerVars, runnerVars>>
    /\ UNCHANGED <<crashes, writers, ioErrors, events, logs>>

\* variant: the monitor looks at every line
MonitorSkips_never(info) == FALSE

\* CommandMonitor.process_line, first statement: return once the guard is violated
MonitorSkips(info) == info # Null

\* CommandMonitor.process_line on a command-boundary line of the child's
\* stdout, which the pump reads until the stream ends
G_process_line ==
    /\ gpc = "running"
    /\ tally.lines < MaxLines
    /\ IF MonitorSkips(violationInfo)
         THEN /\ tally' = [tally EXCEPT !.lines = @ + 1]
              /\ UNCHANGED <<violationInfo, denyPath>>
         ELSE LET t == [tally EXCEPT !.lines = @ + 1, !.scans = @ + 1]
              IN  \/ /\ ScanFindsDeny      \* find_violations is non-empty
                     /\ violationInfo' = handle_violation(violationInfo, t).info
                     /\ tally' = handle_violation(violationInfo, t).tally
                     /\ denyPath' = IF violationInfo = Null THEN "clean" ELSE denyPath
                  \/ /\ ~ScanFindsDeny     \* nothing changed, or nothing denied
                     /\ tally' = t
                     /\ UNCHANGED <<violationInfo, denyPath>>
                  \/ /\ violationInfo' = handle_guard_failure(violationInfo, t).info
                     /\ tally' = handle_guard_failure(violationInfo, t).tally
                     /\ UNCHANGED denyPath   \* scan raised RuntimeError
    /\ UNCHANGED <<gpc, guardExit, children, child>>
    /\ UNCHANGED <<scopeVars, hubVars, extraVars, lastEnq, hist>>
    /\ UNCHANGED <<storeVars, workerVars, runnerVars>>
    /\ UNCHANGED <<crashes, writers, ioErrors, events, logs>>

\* the inner command exits, by itself or on the guard's SIGTERM
G_child_exit(code) ==
    /\ gpc = "running"
    /\ ChildAlive
    /\ children' = children - 1
    /\ child' = [child EXCEPT !.code = code]
    /\ UNCHANGED <<guardVars, denyPath>>
    /\ UNCHANGED <<scopeVars, hubVars, extraVars, lastEnq, hist>>
    /\ UNCHANGED <<storeVars, workerVars, runnerVars>>
    /\ UNCHANGED <<crashes, writers, ioErrors, events, logs>>

\* GuardedProcess.run: wait and joins are over; 86 if the guard is violated
G_return ==
    /\ gpc = "running"
    /\ ~ChildAlive
    /\ guardExit' = IF violationInfo # Null THEN 86 ELSE child.code
    /\ gpc' = "exited"
    /\ UNCHANGED <<violationInfo, tally>>
    /\ UNCHANGED <<scopeVars, hubVars, extraVars, lastEnq, hist>>
    /\ UNCHANGED <<storeVars, workerVars, runnerVars, childVars>>
    /\ UNCHANGED <<crashes, writers, ioErrors, events, logs>>

\* ------------------------------------------------------- WebSocket hub
\* a frame as the client reads it: the envelope type, and for broadcasts the
\* number of the broadcast and the thread that issued it (0: the connection's
\* own thread)
Msg(type, seq, thread) == [type |-> type, seq |-> seq, thread |-> thread, message |-> ""]

\* send_json("error", {"message": ...})
ErrorMsg(message) == [Msg("error", 0, 0) EXCEPT !.message = message]

Tokens == {Null, "", "forged", "expired", "valid"}     \* Null: no token field
ClientMessages == {"fetch_prompt", "request_queue", "ping", "other"}

\* AuthManager.verify_token: the user of a well-signed, unexpired token
verify_token(token) == IF token = "valid" THEN "user" ELSE Null

\* WebSocketConnection._send_frame: nothing is written when the connection is
\* not alive; a write either succeeds or raises OSError, which clears alive
SendOutcomes(cn, ib, m) ==
    IF ~cn.alive THEN {[conn |-> cn, inbox |-> ib, ok |-> FALSE]}
    ELSE {[conn |-> cn, inbox |-> Append(ib, m), ok |-> TRUE],
          [conn |-> [cn EXCEPT !.alive = FALSE], inbox |-> ib, ok |-> FALSE]}

\* WebSocketConnection.close(code): a close frame if the connection is alive
CloseOutcomes(cn, ib, code) ==
    {[conn |-> [o.conn EXCEPT !.alive = FALSE], inbox |-> o.inbox, ok |-> o.ok] :
        o \in SendOutcomes(cn, ib, Msg("close", code, 0))}

\* variant: a broadcast writes to every live connection
BroadcastSkips_nobody(cn) == FALSE

\* WebSocketManager.broadcast: a connection whose user is unset is passed over
BroadcastSkips(cn) == cn.user = Null

\* WebSocketManager.broadcast with targets=[c], as the connection's own thread
\* calls it: the frame written or not, and whether c is unregistered as dead
TargetedOutcomes(cn, ib, m) ==
    IF ~cn.alive THEN {[conn |-> cn, inbox |-> ib, dead |-> TRUE]}
    ELSE IF BroadcastSkips(cn) THEN {[conn |-> cn, inbox |-> ib, dead |-> FALSE]}
    ELSE {[conn |-> o.conn, inbox |-> o.inbox, dead |-> ~o.ok] : o \in SendOutcomes(cn, ib, m)}

RECURSIVE MsgsUpTo(_)
MsgsUpTo(n) == IF n = 0 THEN 0 ELSE conn[n].msgs + MsgsUpTo(n - 1)
\* client messages read so far, over all connections
MsgsRead == MsgsUpTo(MaxConns)

\* WebSocketConnection.serve: handshake, alive, register, the hello envelope
WS_connect(c) ==
    /\ conn[c].pc = "new"
    /\ clients' = clients \cup {c}
    /\ \E o \in SendOutcomes([conn[c] EXCEPT !.alive = TRUE, !.pc = "serve"], inbox[c],
                             Msg("hello", 0, 0)) :
         /\ conn' = [conn EXCEPT ![c] = o.conn]
         /\ inbox' = [inbox EXCEPT ![c] = o.inbox]
    /\ UNCHANGED <<bc, bseq>>
    /\ UNCHANGED <<scopeVars, guardVars, extraVars, lastEnq, hist>>
    /\ UNCHANGED <<storeVars, workerVars, runnerVars, childVars>>
    /\ UNCHANGED <<crashes, writers, ioErrors, events, logs>>

\* handle_client_message for a message that is not auth
WS_message(c, m) ==
    /\ conn[c].pc = "serve" /\ conn[c].alive
    /\ MsgsRead < MaxMsgs
    /\ LET cn == [conn[c] EXCEPT !.msgs = @ + 1]
       IN  IF cn.user = Null \/ m \in {"ping", "other"}
             THEN \E o \in SendOutcomes(cn, inbox[c],
                                IF cn.user = Null THEN ErrorMsg("authentication required")
                                ELSE IF m = "ping" THEN Msg("pong", 0, 0)
                                ELSE ErrorMsg("unknown message type")) :
                    /\ conn' = [conn EXCEPT ![c] = o.conn]
                    /\ inbox' = [inbox EXCEPT ![c] = o.inbox]
                    /\ UNCHANGED clients
             ELSE \E o \in TargetedOutcomes(cn, inbox[c],
                                Msg(IF m = "request_queue" THEN "queue_snapshot" ELSE "prompt_update", 0, 0)) :
                    /\ conn' = [conn EXCEPT ![c] = o.conn]
                    /\ inbox' = [inbox EXCEPT ![c] = o.inbox]
                    /\ clients' = IF o.dead THEN clients \ {c} ELSE clients
    /\ UNCHANGED <<bc, bseq>>
    /\ UNCHANGED <<scopeVars, guardVars, extraVars, lastEnq, hist>>
    /\ UNCHANGED <<storeVars, workerVars, runnerVars, childVars>>
    /\ UNCHANGED <<crashes, writers, ioErrors, events, logs>>

\* handle_client_message for an auth message, up to the assignment of user
WS_auth(c, token) ==
    /\ conn[c].pc = "serve" /\ conn[c].alive
    /\ MsgsRead < MaxMsgs
    /\ LET cn == [conn[c] EXCEPT !.msgs = @ + 1]
       IN  IF token \in {Null, ""}          \* (payload.get("token") or "").strip() is empty
             THEN \E o \in SendOutcomes(cn, inbox[c], ErrorMsg("auth token required")) :
                    /\ conn' = [conn EXCEPT ![c] = o.conn]
                    /\ inbox' = [inbox EXCEPT ![c] = o.inbox]
           ELSE IF verify_token(token) = Null
             THEN \E o \in SendOutcomes(cn, inbox[c], ErrorMsg("invalid or expired token")) :
                  \E q \in CloseOutcomes(o.conn, o.inbox, 4003) :
                    /\ conn' = [conn EXCEPT ![c] = q.conn]
                    /\ inbox' = [inbox EXCEPT ![c] = q.inbox]
           ELSE /\ conn' = [conn EXCEPT ![c] = [cn EXCEPT !.user = verify_token(token),
                                                          !.pc = "auth_ok"]]
                /\ UNCHANGED inbox
    /\ UNCHANGED <<clients, bc, bseq>>
    /\ UNCHANGED <<scopeVars, guardVars, extraVars, lastEnq, hist>>
    /\ UNCHANGED <<storeVars, workerVars, runnerVars, childVars>>
    /\ UNCHANGED <<crashes, writers, ioErrors, events, logs>>

\* handle_client_message, auth: connection.send_json("auth_ok", ...)
WS_auth_ok(c) ==
    /\ conn[c].pc = "auth_ok"
    /\ \E o \in SendOutcomes(conn[c], inbox[c], Msg("auth_ok", 0, 0)) :
         /\ conn' = [conn EXCEPT ![c] = [o.conn EXCEPT !.pc = "initial_queue"]]
         /\ inbox' = [inbox EXCEPT ![c] = o.inbox]
    /\ UNCHANGED <<clients, bc, bseq>>
    /\ UNCHANGED <<scopeVars, guardVars, extraVars, lastEnq, hist>>
    /\ UNCHANGED <<storeVars, workerVars, runnerVars, childVars>>
    /\ UNCHANGED <<crashes, writers, ioErrors, events, logs>>

\* EventStreamer.send_initial_state: broadcast_queue, then broadcast_health,
\* each with targets=[connection]
WS_initial(c) ==
    /\ conn[c].pc \in {"initial_queue", "initial_health"}
    /\ \E o \in TargetedOutcomes(conn[c], inbox[c],
                    Msg(IF conn[c].pc = "initial_queue" THEN "queue_snapshot" ELSE "health",
                        0, 0)) :
         /\ conn' = [conn EXCEPT ![c] =
                        [o.conn EXCEPT !.pc = IF conn[c].pc = "initial_queue"
                                                THEN "initial_health" ELSE "serve"]]
         /\ inbox' = [inbox EXCEPT ![c] = o.inbox]
         /\ clients' = IF o.dead THEN clients \ {c} ELSE clients
    /\ UNCHANGED <<bc, bseq>>
    /\ UNCHANGED <<scopeVars, guardVars, extraVars, lastEnq, hist>>
    /\ UNCHANGED <<storeVars, workerVars, runnerVars, childVars>>
    /\ UNCHANGED <<crashes, writers, ioErrors, events, logs>>

\* the peer goes away: EOF or a connection error is read and the loop is
\* left, or a close frame is read and answered by close()
WS_disconnect(c) ==
    /\ conn[c].pc = "serve" /\ conn[c].alive
    /\ \/ /\ conn' = [conn EXCEPT ![c] = [@ EXCEPT !.alive = FALSE]]
          /\ UNCHANGED inbox
       \/ \E q \in CloseOutcomes(conn[c], inbox[c], 1000) :
            /\ conn' = [conn EXCEPT ![c] = q.conn]
            /\ inbox' = [inbox EXCEPT ![c] = q.inbox]
    /\ UNCHANGED <<clients, bc, bseq>>
    /\ UNCHANGED <<scopeVars, guardVars, extraVars, lastEnq, hist>>
    /\ UNCHANGED <<storeVars, workerVars, runnerVars, childVars>>
    /\ UNCHANGED <<crashes, writers, ioErrors, events, logs>>

\* serve(): the loop ends once alive is false; the finally block unregisters
WS_finish(c) ==
    /\ conn[c].pc = "serve" /\ ~conn[c].alive
    /\ conn' = [conn EXCEPT ![c] = [@ EXCEPT !.pc = "done"]]
    /\ clients' = clients \ {c}
    /\ UNCHANGED <<inbox, bc, bseq>>
    /\ UNCHANGED <<scopeVars, guardVars, extraVars, lastEnq, hist>>
    /\ UNCHANGED <<storeVars, workerVars, runnerVars, childVars>>
    /\ UNCHANGED <<crashes, writers, ioErrors, events, logs>>

\* the envelopes a thread broadcasts to all clients, in its order: the worker a
\* run's stream frames, then _emit_updates; the HTTP thread after a delete
Broadcasts(t) ==
    IF t = 1 THEN <<"prompt_stream", "queue_snapshot", "prompt_update", "health">>
    ELSE <<"queue_snapshot", "health", "prompt_deleted">>

RECURSIVE IssuedBy(_)
IssuedBy(T) == IF T = {} THEN 0
               ELSE LET t == CHOOSE x \in T : TRUE IN bseq[t] + IssuedBy(T \ {t})

\* list(self._clients): the clients in some order
Orders(S) == {f \in [1..Cardinality(S) -> S] : \A i, j \in DOMAIN f : f[i] = f[j] => i = j}

\* WebSocketManager.broadcast without targets: the recipients are copied under
\* the lock; with no recipient the call returns
B_start(t) ==
    /\ ~bc[t].active
    /\ IssuedBy(Threads) < MaxBroadcasts
    /\ bseq[t] < Len(Broadcasts(t))
    /\ bseq' = [bseq EXCEPT ![t] = @ + 1]
    /\ IF clients = {} THEN UNCHANGED bc
       ELSE \E order \in Orders(clients) :
              bc' = [bc EXCEPT ![t] =
                        [active |-> TRUE, type |-> Broadcasts(t)[bseq[t] + 1],
                         seq |-> bseq[t] + 1,
                         recipients |-> order, i |-> 1, dead |-> {},
                         eligible |-> {c \in clients : conn[c].alive /\ conn[c].user # Null}]]
    /\ UNCHANGED <<conn, clients, inbox>>
    /\ UNCHANGED <<scopeVars, guardVars, extraVars, lastEnq, hist>>
    /\ UNCHANGED <<storeVars, workerVars, runnerVars, childVars>>
    /\ UNCHANGED <<crashes, writers, ioErrors, events, logs>>

\* variant: the loop over the recipients ends at the first failed write
AfterFailedWrite_break(b) == Len(b.recipients) + 1

\* WebSocketManager.broadcast: after a failed write the loop goes on
AfterFailedWrite(b) == b.i + 1

\* WebSocketManager.broadcast, one turn of the loop over the recipients
B_step(t) ==
    /\ bc[t].active
    /\ bc[t].i <= Len(bc[t].recipients)
    /\ LET b == bc[t]
           c == b.recipients[b.i]
       IN  IF ~conn[c].alive
             THEN /\ bc' = [bc EXCEPT ![t] = [b EXCEPT !.i = @ + 1, !.dead = @ \cup {c}]]
                  /\ UNCHANGED <<conn, inbox>>
           ELSE IF BroadcastSkips(conn[c])
             THEN /\ bc' = [bc EXCEPT ![t] = [b EXCEPT !.i = @ + 1]]
                  /\ UNCHANGED <<conn, inbox>>
           ELSE \E o \in SendOutcomes(conn[c], inbox[c], Msg(b.type, b.seq, t)) :
                  /\ conn' = [conn EXCEPT ![c] = o.conn]
                  /\ inbox' = [inbox EXCEPT ![c] = o.inbox]
                  /\ bc' = [bc EXCEPT ![t] =
                              IF o.ok THEN [b EXCEPT !.i = @ + 1]
                              ELSE [b EXCEPT !.i = AfterFailedWrite(b), !.dead = @ \cup {c}]]
    /\ UNCHANGED <<clients, bseq>>
    /\ UNCHANGED <<scopeVars, guardVars, extraVars, lastEnq, hist>>
    /\ UNCHANGED <<storeVars, workerVars, runnerVars, childVars>>
    /\ UNCHANGED <<crashes, writers, ioErrors, events, logs>>

\* WebSocketManager.broadcast: the dead connections are unregistered
B_end(t) ==
    /\ bc[t].active
    /\ bc[t].i > Len(bc[t].recipients)
    /\ clients' = clients \ bc[t].dead
    /\ bc' = [bc EXCEPT ![t] = BcIdle]
    /\ UNCHANGED <<conn, inbox, bseq>>
    /\ UNCHANGED <<scopeVars, guardVars, extraVars, lastEnq, hist>>
    /\ UNCHANGED <<storeVars, workerVars, runnerVars, childVars>>
    /\ UNCHANGED <<crashes, writers, ioErrors, events, logs>>

\* ------------------------------------------------- git commands on the repository
BadSha == MaxCommits + 1                  \* a name that resolves to no commit
Fail(r) == [ok |-> FALSE, repo |-> r]
Done(r) == [ok |-> TRUE, repo |-> r]

Tree(r, c) == IF c = 0 THEN 0 ELSE r.commits[c].tree
Parent(r, c) == r.commits[c].parent
HeadCommit(r) == r.branch[r.head]

\* git status --porcelain prints something
_workspace_dirty(r) == r.conflict \/ r.work # Tree(r, HeadCommit(r))

\* commit a is d or one of its ancestors
RECURSIVE Ancestor(_, _, _)
Ancestor(r, a, d) ==
    IF d = 0 THEN a = 0
    ELSE IF a = d THEN TRUE
    ELSE Ancestor(r, a, Parent(r, d))

\* git rev-list --reverse start..end: oldest first
RECURSIVE _list_commits(_, _, _)
_list_commits(r, start, end) ==
    IF end = 0 \/ Ancestor(r, end, start) THEN <<>>
    ELSE Append(_list_commits(r, start, Parent(r, end)), end)

\* a checkout of commit c: local changes are carried along when the file is the
\* same on both sides, and refused otherwise
Checkout(r, c) ==
    IF r.conflict THEN Fail(r)
    ELSE IF ~_workspace_dirty(r) THEN Done([r EXCEPT !.work = Tree(r, c)])
    ELSE IF Tree(r, c) = Tree(r, HeadCommit(r)) THEN Done(r)
    ELSE Fail(r)

\* git switch <b>
Switch(r, b) ==
    IF r.branch[b] = 0 THEN Fail(r)
    ELSE LET co == Checkout(r, r.branch[b])
         IN  IF co.ok THEN Done([co.repo EXCEPT !.head = b]) ELSE Fail(r)

\* git switch -C <b> <start>
SwitchCreate(r, b, start) ==
    IF r.branch[start] = 0 THEN Fail(r)
    ELSE LET co == Checkout(r, r.branch[start])
         IN  IF co.ok THEN Done([co.repo EXCEPT !.head = b, !.branch[b] = r.branch[start]])
             ELSE Fail(r)

\* git branch -D <b>
BranchDelete(r, b) ==
    IF r.branch[b] = 0 \/ r.head = b THEN Fail(r)
    ELSE Done([r EXCEPT !.branch[b] = 0])

\* git merge --ff-only <b>: nothing to do when b is already contained
MergeFfOnly(r, b) ==
    IF r.branch[b] = 0 THEN Fail(r)
    ELSE IF Ancestor(r, r.branch[b], HeadCommit(r)) THEN Done(r)
    ELSE IF ~Ancestor(r, HeadCommit(r), r.branch[b]) THEN Fail(r)
    ELSE LET co == Checkout(r, r.branch[b])
         IN  IF co.ok THEN Done([co.repo EXCEPT !.branch[r.head] = r.branch[b]]) ELSE Fail(r)

\* git revert --no-edit --no-commit <sha>: a three-way merge of the file with
\* the commit as base and the commit's parent as the other side
Revert(r, sha) ==
    IF sha \notin 1..Len(r.commits) \/ r.conflict THEN Fail(r)
    ELSE LET base == Tree(r, sha)
             theirs == Tree(r, Parent(r, sha))
         IN  IF r.work = base THEN Done([r EXCEPT !.work = theirs, !.reverting = TRUE])
             ELSE IF theirs = base \/ theirs = r.work THEN Done([r EXCEPT !.reverting = TRUE])
             ELSE Fail([r EXCEPT !.conflict = TRUE, !.reverting = TRUE])

\* git revert --abort
RevertAbort(r) ==
    IF ~r.reverting THEN Fail(r)
    ELSE Done([r EXCEPT !.work = Tree(r, HeadCommit(r)), !.conflict = FALSE,
                        !.reverting = FALSE])

\* git commit -m <message>, and the Agent CLI's git commit -am
Commit(r) ==
    IF r.conflict \/ r.work = Tree(r, HeadCommit(r)) THEN Fail(r)
    ELSE Done([r EXCEPT !.commits = Append(@, [parent |-> HeadCommit(r), tree |-> r.work]),
                        !.branch[r.head] = Len(r.commits) + 1,
                        !.reverting = FALSE])

Exec(r, cmd) ==
    CASE cmd.op = "switch" -> Switch(r, cmd.arg)
      [] cmd.op = "switch -C" -> SwitchCreate(r, cmd.arg, BaseBranch)
      [] cmd.op = "branch -D" -> BranchDelete(r, cmd.arg)
      [] cmd.op = "merge --ff-only" -> MergeFfOnly(r, cmd.arg)
      [] cmd.op = "revert" -> Revert(r, cmd.arg)
      [] cmd.op = "revert --abort" -> RevertAbort(r)
      [] cmd.op = "commit" -> Commit(r)

Cmd(op, arg) == [op |-> op, arg |-> arg]

\* variant: dry-run is not consulted
_git_always_runs(r, cmd, d) == Exec(r, cmd)

\* PromptBranchDiscipline._git(args, mutating=True): with dry-run the command
\* is logged and reported as done; a non-zero exit is a GitBranchError
_git(r, cmd, d) == IF d.dry_run_mutations THEN Done(r) ELSE Exec(r, cmd)

\* what a call of the discipline hands back
Returned(r, raised, sess, commits, rollback_commit) ==
    [repo |-> r, raised |-> raised, session |-> sess, commits |-> commits,
     rollback_commit |-> rollback_commit]
Raise(r, sess) == Returned(r, TRUE, sess, <<>>, 0)

\* variant: the working tree is not looked at
DirtyRefused_never(r) == FALSE

\* begin_run, finalize_run: "if self._workspace_dirty(): raise GitBranchError"
DirtyRefused(r) == _workspace_dirty(r)

\* PromptBranchDiscipline.begin_run
begin_run(r, d) ==
    IF ~d.allow_dirty_workspace /\ DirtyRefused(r) THEN Raise(r, NoSession)
    ELSE IF r.branch[BaseBranch] = 0 THEN Raise(r, NoSession)
    ELSE LET sess == [active |-> TRUE, base_commit |-> r.branch[BaseBranch]]
             s1 == _git(r, Cmd("switch", BaseBranch), d)
             s2 == IF s1.repo.branch[PromptBranch] # 0
                     THEN _git(s1.repo, Cmd("branch -D", PromptBranch), d) ELSE s1
             s3 == _git(s2.repo, Cmd("switch -C", PromptBranch), d)
         IN  IF ~s1.ok THEN Raise(s1.repo, NoSession)
             ELSE IF ~s2.ok THEN Raise(s2.repo, NoSession)
             ELSE IF ~s3.ok THEN Raise(s3.repo, NoSession)
             ELSE Returned(s3.repo, FALSE, sess, <<>>, 0)

\* variant: only the head of the prompt branch is reported
MergedCommits_head_only(r, before, branch_head) == <<branch_head>>

\* finalize_run: commits = self._list_commits(result.base_head_before_merge, branch_head)
MergedCommits(r, before, branch_head) == _list_commits(r, before, branch_head)

\* PromptBranchDiscipline.finalize_run on a session
finalize_run(r, d, sess) ==
    IF ~d.cleanup_enabled THEN Returned(r, FALSE, sess, <<>>, 0)
    ELSE IF DirtyRefused(r) THEN Raise(r, sess)
    ELSE LET s1 == _git(r, Cmd("switch", BaseBranch), d)
             before == s1.repo.branch[BaseBranch]
             branch_head == s1.repo.branch[PromptBranch]
             s2 == IF branch_head # before
                     THEN _git(s1.repo, Cmd("merge --ff-only", PromptBranch), d) ELSE s1
             commits == IF branch_head # before
                          THEN MergedCommits(s2.repo, before, branch_head) ELSE <<>>
             s3 == _git(s2.repo, Cmd("branch -D", PromptBranch), d)
         IN  IF ~s1.ok THEN Raise(s1.repo, sess)
             ELSE IF branch_head = 0 THEN Returned(s1.repo, FALSE, sess, <<>>, 0)
             ELSE IF ~s2.ok THEN Raise(s2.repo, sess)
             ELSE IF ~s3.ok THEN Raise(s3.repo, sess)
             ELSE Returned(s3.repo, FALSE, sess, commits, 0)

\* "for sha in reversed(normalized_commits)": the commits from the k-th down
RECURSIVE RevertFrom(_, _, _, _)
RevertFrom(r, d, commits, k) ==
    IF k = 0 THEN Done(r)
    ELSE LET s == _git(r, Cmd("revert", commits[k]), d)
         IN  IF s.ok THEN RevertFrom(s.repo, d, commits, k - 1) ELSE s

\* PromptBranchDiscipline.rollback_prompt_commits
rollback_prompt_commits(r, d, commits) ==
    IF commits = <<>> THEN Returned(r, FALSE, NoSession, <<>>, 0)
    ELSE IF _workspace_dirty(r) THEN Raise(r, NoSession)
    ELSE LET s1 == _git(r, Cmd("switch", BaseBranch), d)
             s2 == RevertFrom(s1.repo, d, commits, Len(commits))
             s3 == _git(s2.repo, Cmd("commit", 0), d)
         IN  IF ~s1.ok THEN Raise(s1.repo, NoSession)
             ELSE IF ~s2.ok
               THEN Raise(_git(s2.repo, Cmd("revert --abort", 0), d).repo, NoSession)
             ELSE IF ~s3.ok THEN Raise(s3.repo, NoSession)
             ELSE Returned(s3.repo, FALSE, NoSession, commits, HeadCommit(s3.repo))

notGit == <<backendVars, scopeVars, guardVars, hubVars, displayVars, trackerVars, durationVars, pairingVars>>

Record(op, given, out) ==
    [op |-> op, raised |-> out.raised, given |-> given, commits |-> out.commits,
     rollback_commit |-> out.rollback_commit]

\* the worker calls begin_run for an attempt
G_begin_run ==
    /\ LET out == begin_run(repo, discipline)
       IN  /\ repo' = out.repo
           /\ session' = out.session
           /\ lastCall' = Record("begin_run", <<>>, out)
    /\ UNCHANGED <<discipline, notGit>>

\* run() calls finalize_run with the session of the attempt
G_finalize_run ==
    /\ session.active
    /\ LET out == finalize_run(repo, discipline, session)
       IN  /\ repo' = out.repo
           /\ lastCall' = Record("finalize_run", <<>>, out)
    /\ session' = NoSession
    /\ UNCHANGED <<discipline, notGit>>

\* the commit lists a rollback is asked for: what a cleanup reported, a list
\* naming an unknown commit, a list of one or two commits of the repository
RollbackLists ==
    {<<>>, <<BadSha>>} \cup {<<a>> : a \in 2..Len(repo.commits)}
        \cup {<<a, b>> : a, b \in (2..Len(repo.commits)) \cup {BadSha}}

\* a rollback of a prompt's commits is requested
G_rollback(commits) ==
    /\ Len(repo.commits) < MaxCommits
    /\ LET out == rollback_prompt_commits(repo, discipline, commits)
       IN  /\ repo' = out.repo
           /\ lastCall' = Record("rollback", commits, out)
    /\ UNCHANGED <<discipline, session, notGit>>

\* the Agent CLI, or a user, writes the tracked file
G_edit(c) ==
    /\ ~repo.conflict
    /\ c # repo.work
    /\ repo' = [repo EXCEPT !.work = c]
    /\ UNCHANGED <<discipline, session, lastCall, notGit>>

\* the Agent CLI commits its change on the branch checked out
G_commit ==
    /\ Len(repo.commits) < MaxCommits
    /\ Commit(repo).ok
    /\ repo' = Commit(repo).repo
    /\ UNCHANGED <<discipline, session, lastCall, notGit>>

\* a user checks another branch out
G_switch(b) ==
    /\ b # repo.head
    /\ Switch(repo, b).ok
    /\ repo' = Switch(repo, b).repo
    /\ UNCHANGED <<discipline, session, lastCall, notGit>>

\* a discipline with any configuration on the repository of the tests
InitGit ==
    /\ InitBackend /\ InitScopeIdle /\ InitGuardProcess /\ InitHub /\ InitDisplay
    /\ InitTrackerIdle /\ InitDurationsIdle /\ InitPairing
    /\ repo = RepoInit
    /\ discipline \in [dry_run_mutations : BOOLEAN, cleanup_enabled : BOOLEAN,
                       allow_dirty_workspace : BOOLEAN]
    /\ session = NoSession
    /\ lastCall = NoCall

\* ------------------------------------------------------ DirtyFileTracker
notTracker == <<backendVars, scopeVars, guardVars, hubVars, gitVars, displayVars, durationVars, pairingVars>>

\* variant: scan leaves the baseline as it was
scan_keeps_baseline(state, new_state) ==
    [touched |-> {path \in ScanPaths : state[path] # new_state[path]},
     state |-> state]

\* DirtyFileTracker.scan: the paths whose entry differs, and the new baseline
scan(state, new_state) ==
    [touched |-> {path \in ScanPaths : state[path] # new_state[path]},
     state |-> new_state]

\* DirtyFileTracker.refresh
refresh(new_state) == new_state

\* ScopeGuard.revert_paths: git checkout -- path restores a tracked path from
\* the index; a path git cannot restore is deleted
revert_paths(f, ix, paths) ==
    [path \in ScanPaths |-> IF path \in paths THEN ix[path] ELSE f[path]]

\* a tracker built by the guard process on any working tree
InitTracker ==
    /\ InitBackend /\ InitScopeIdle /\ InitGuardProcess /\ InitHub
    /\ InitGitIdle /\ InitDisplay /\ InitDurationsIdle /\ InitPairing
    /\ files \in [ScanPaths -> Stamps]
    /\ index \in [ScanPaths -> Stamps]
    /\ baseline = _snapshot(files, index)
    /\ reported = <<>>
    /\ changed = {}
    /\ guardViolated = FALSE

\* the Agent CLI writes a path
DT_write(path, stamp) ==
    /\ stamp # files[path]
    /\ files' = [files EXCEPT ![path] = stamp]
    /\ changed' = changed \cup {path}
    /\ UNCHANGED <<index, baseline, reported, guardViolated, notTracker>>

\* the Agent CLI removes a path
DT_delete(path) ==
    /\ files[path] # 0
    /\ files' = [files EXCEPT ![path] = 0]
    /\ changed' = changed \cup {path}
    /\ UNCHANGED <<index, baseline, reported, guardViolated, notTracker>>

\* the Agent CLI stages a path (git add, git rm --cached)
DT_stage(path) ==
    /\ index[path] # files[path]
    /\ index' = [index EXCEPT ![path] = files[path]]
    /\ changed' = changed \cup {path}
    /\ UNCHANGED <<files, baseline, reported, guardViolated, notTracker>>

\* CommandMonitor.process_line on a command-boundary line: scan,
\* find_violations, and on a violation handle_violation (revert_paths) and
\* tracker.refresh
DT_process_line ==
    /\ ~guardViolated
    /\ Len(reported) < MaxBoundaries
    /\ LET result == scan(baseline, _snapshot(files, index))
           violations == result.touched \cap DenyPaths
       IN  /\ reported' = Append(reported, result.touched)
           /\ IF violations = {}
                THEN /\ baseline' = result.state
                     /\ UNCHANGED <<files, guardViolated>>
                ELSE /\ files' = revert_paths(files, index, violations)
                     /\ baseline' = refresh(_snapshot(files', index))
                     /\ guardViolated' = TRUE
    /\ changed' = {}
    /\ UNCHANGED <<index, notTracker>>

\* CommandMonitor.process_line: scan raises RuntimeError (git ls-files failed)
\* and handle_guard_failure records it
DT_scan_fails ==
    /\ ~guardViolated
    /\ guardViolated' = TRUE
    /\ UNCHANGED <<files, index, baseline, reported, changed, notTracker>>

\* ------------------------------------------------------ duration samples
notDurations == <<backendVars, scopeVars, guardVars, hubVars, gitVars, displayVars, trackerVars, pairingVars>>

NoSeconds == 0 - 1   \* None for an Optional[float]
Seconds == {NoSeconds} \cup (0..MaxSeconds)
Sample(wait_seconds, run_seconds) == [wait |-> wait_seconds, run |-> run_seconds]
SampleSet == [wait : Seconds, run : Seconds]

\* the popleft of _append_duration_sample without the subtraction
PopOldest_keeps_sums(d) == [d EXCEPT !.samples = Tail(@)]

\* _append_duration_sample: one turn of the eviction loop
PopOldest(d) ==
    LET old == Head(d.samples)
    IN  [samples |-> Tail(d.samples),
         wait_sum |-> IF old.wait # NoSeconds THEN d.wait_sum - old.wait ELSE d.wait_sum,
         wait_count |-> IF old.wait # NoSeconds THEN (IF d.wait_count - 1 > 0 THEN d.wait_count - 1 ELSE 0)
                        ELSE d.wait_count,
         run_sum |-> IF old.run # NoSeconds THEN d.run_sum - old.run ELSE d.run_sum,
         run_count |-> IF old.run # NoSeconds THEN (IF d.run_count - 1 > 0 THEN d.run_count - 1 ELSE 0)
                       ELSE d.run_count]

\* _append_duration_sample: while len(self._recent_durations) >= self._duration_window
RECURSIVE Evict(_)
Evict(d) == IF Len(d.samples) >= DurationWindow THEN Evict(PopOldest(d)) ELSE d

\* PromptStore._append_duration_sample
_append_duration_sample(d, wait_seconds, run_seconds) ==
    LET e == Evict(d)
    IN  [samples |-> Append(e.samples, Sample(wait_seconds, run_seconds)),
         wait_sum |-> IF wait_seconds # NoSeconds THEN e.wait_sum + wait_seconds ELSE e.wait_sum,
         wait_count |-> IF wait_seconds # NoSeconds THEN e.wait_count + 1 ELSE e.wait_count,
         run_sum |-> IF run_seconds # NoSeconds THEN e.run_sum + run_seconds ELSE e.run_sum,
         run_count |-> IF run_seconds # NoSeconds THEN e.run_count + 1 ELSE e.run_count]

\* _rebuild_duration_history: the finished records that carry a wait or a run
\* value, in the order of last_finished_at
RECURSIVE WithValues(_)
WithValues(finished) ==
    IF finished = <<>> THEN <<>>
    ELSE (IF Head(finished).wait # NoSeconds \/ Head(finished).run # NoSeconds
            THEN <<Head(finished)>> ELSE <<>>) \o WithValues(Tail(finished))

\* finished_records[-self._duration_window:]
LastWindow(q) ==
    IF Len(q) <= DurationWindow THEN q ELSE SubSeq(q, Len(q) - DurationWindow + 1, Len(q))

RECURSIVE AppendAll(_, _)
AppendAll(d, q) ==
    IF q = <<>> THEN d
    ELSE AppendAll(_append_duration_sample(d, Head(q).wait, Head(q).run), Tail(q))

\* PromptStore._rebuild_duration_history on the finished records of the document
_rebuild_duration_history(finished) == AppendAll(NoDurations, LastWindow(WithValues(finished)))

\* the documents a store is built on: up to DurationWindow + 1 finished records
FinishedRecords ==
    UNION {[1..n -> SampleSet] : n \in 0..(DurationWindow + 1)}

\* PromptStore.__init__ on a document with finished records
InitDurations ==
    /\ InitBackend /\ InitScopeIdle /\ InitGuardProcess /\ InitHub
    /\ InitGitIdle /\ InitDisplay /\ InitTrackerIdle /\ InitPairing
    /\ \E finished \in FinishedRecords :
          /\ durations = _rebuild_duration_history(finished)
          /\ observed = LastWindow(WithValues(finished))

\* PromptStore._update: a running prompt reaches a terminal status and its
\* wait and run times are appended
DW_append(wait_seconds, run_seconds) ==
    /\ Len(observed) < MaxSamples
    /\ durations' = _append_duration_sample(durations, wait_seconds, run_seconds)
    /\ observed' = Append(observed, Sample(wait_seconds, run_seconds))
    /\ UNCHANGED notDurations

\* ------------------------------------------------------ pairing
notPairing == <<backendVars, scopeVars, guardVars, hubVars, gitVars, displayVars,
                trackerVars, durationVars>>

\* accept_registration: the payload's code is compared with the pairing state
\* under the lock; a wrong or expired code raises AgentIdentityError
AR_check(t, code) ==
    /\ caller[t].pc = "idle"
    /\ calls < MaxCalls
    /\ calls' = calls + 1
    /\ caller' = IF pairing = 0 \/ pairing # code THEN caller
                 ELSE [caller EXCEPT ![t] = [pc |-> "checked", code |-> code]]
    /\ UNCHANGED <<identity, pairing, succeeded, codes, notPairing>>

\* accept_registration: _normalize_bundle raises on a bundle without agent id
\* or auth token
AR_bad_bundle(t) ==
    /\ caller[t].pc = "checked"
    /\ caller' = [caller EXCEPT ![t] = [pc |-> "idle", code |-> 0]]
    /\ UNCHANGED <<identity, pairing, succeeded, calls, codes, notPairing>>

\* accept_registration: the second lock section installs the identity and
\* clears the pairing state; the bundle is returned
AR_install(t) ==
    /\ caller[t].pc = "checked"
    /\ identity' = t
    /\ pairing' = 0
    /\ succeeded' = succeeded \cup {[thread |-> t, code |-> caller[t].code, call |-> calls]}
    /\ caller' = [caller EXCEPT ![t] = [pc |-> "idle", code |-> 0]]
    /\ UNCHANGED <<calls, codes, notPairing>>

\* trigger_pairing_reset: the identity is dropped and _ensure_pairing_state
\* generates a code unless one is current
AR_reset ==
    /\ identity # 0
    /\ pairing # 0 \/ codes < MaxCodes
    /\ identity' = 0
    /\ pairing' = IF pairing # 0 THEN pairing ELSE codes + 1
    /\ codes' = IF pairing # 0 THEN codes ELSE codes + 1
    /\ UNCHANGED <<caller, succeeded, calls, notPairing>>

\* ------------------------------------------------------ display refresh requests
notDisplay == <<backendVars, scopeVars, guardVars, hubVars, gitVars, trackerVars, durationVars, pairingVars>>

\* variant: the queue takes any number of requests
put_nowait_unbounded(q, item) == [full |-> FALSE, queue |-> Append(q, item)]

\* queue.Queue.put_nowait on a queue of maxsize QueueMax
put_nowait(q, item) ==
    IF Len(q) >= QueueMax THEN [full |-> TRUE, queue |-> q]
    ELSE [full |-> FALSE, queue |-> Append(q, item)]

\* request_refresh with the display enabled and its driver ready, up to the
\* first put_nowait
D_request(t) ==
    /\ requester[t].pc = "idle"
    /\ attempts < MaxRequests
    /\ attempts' = attempts + 1
    /\ LET put == put_nowait(dq, attempts + 1)
       IN  /\ dq' = put.queue
           /\ requester' = [requester EXCEPT ![t] =
                               IF put.full THEN [pc |-> "flush", id |-> attempts + 1]
                               ELSE [pc |-> "idle", id |-> 0]]
    /\ UNCHANGED <<refreshAfter, dropped, notDisplay>>

\* _flush_refresh_queue: one get_nowait that returns a request
D_flush_get(t) ==
    /\ requester[t].pc = "flush"
    /\ dq # <<>>
    /\ dq' = Tail(dq)
    /\ UNCHANGED <<requester, attempts, refreshAfter, dropped, notDisplay>>

\* _flush_refresh_queue: get_nowait raises queue.Empty
D_flush_empty(t) ==
    /\ requester[t].pc = "flush"
    /\ dq = <<>>
    /\ requester' = [requester EXCEPT ![t].pc = "retry"]
    /\ UNCHANGED <<dq, attempts, refreshAfter, dropped, notDisplay>>

\* request_refresh: the second put_nowait; a second queue.Full is logged and
\* the request given up
D_retry(t) ==
    /\ requester[t].pc = "retry"
    /\ LET put == put_nowait(dq, requester[t].id)
       IN  /\ dq' = put.queue
           /\ dropped' = IF put.full THEN dropped \cup {requester[t].id} ELSE dropped
    /\ requester' = [requester EXCEPT ![t] = [pc |-> "idle", id |-> 0]]
    /\ UNCHANGED <<attempts, refreshAfter, notDisplay>>

\* run(): a request is taken from the queue and the panel is refreshed
D_refresh ==
    /\ dq # <<>>
    /\ dq' = Tail(dq)
    /\ refreshAfter' = attempts
    /\ UNCHANGED <<requester, attempts, dropped, notDisplay>>

\* ------------------------------------------------------------- properties
Running == {id \in DOMAIN records : records[id].status = "running"}

RECURSIVE Occurrences(_, _)
Occurrences(id, q) ==
    IF q = <<>> THEN 0
    ELSE (IF Head(q) = id THEN 1 ELSE 0) + Occurrences(id, Tail(q))

WithStatus(status) == {id \in DOMAIN records : records[id].status = status}

\* C1: every id held in the FIFO refers to an existing record whose status is
\* queued.
C1_FifoHoldsQueued ==
    \A k \in 1..Len(fifo) :
        fifo[k] \in DOMAIN records /\ records[fifo[k]].status = "queued"

\* C2: once every submit and retry has returned, each queued record the worker
\* has not taken has exactly one FIFO entry, and no id is in the FIFO twice.
C2_QueuedExactlyOnce ==
    inflight = <<>> =>
        /\ \A id \in DOMAIN records :
              (records[id].status = "queued" /\ ~(wpc = "armed" /\ wid = id))
                  => Occurrences(id, fifo) = 1
        /\ \A id \in Ids : Occurrences(id, fifo) <= 1

LegalChange(old, new) ==
    \/ old = new
    \/ old = "queued" /\ new = "running"
    \/ old = "running" /\ new \in TERMINAL_PROMPT_STATUSES
    \/ old \in TERMINAL_PROMPT_STATUSES /\ new = "queued"

\* C3: while the backend is up, every change of a record's status is queued to
\* running, running to a terminal status, or a terminal status to queued.
C3_Lifecycle ==
    [][crashes' = crashes =>
          \A id \in (DOMAIN records) \cap (DOMAIN records') :
              LegalChange(records[id].status, records'[id].status)]_vars

C5_TakeOrder ==
    [][(wpc = "idle" /\ fifo # <<>> /\ fifo' = Tail(fifo) /\ crashes' = crashes
            /\ Head(fifo) \in DOMAIN records)
          => records[Head(fifo)].enqueued_at >= lastEnq]_vars

\* C6: the status counter has exactly one entry per status that some record
\* has, and the entry is the number of records in that status.
C6_StatusCounts ==
    /\ DOMAIN statusCounts = {st \in PROMPT_STATUSES : WithStatus(st) # {}}
    /\ \A st \in DOMAIN statusCounts : statusCounts[st] = Cardinality(WithStatus(st))

\* C6 witness: after a load with ghost recovery the running entry is gone and
\* the failed entry counts the recovered record next to a queued one.
C6_Witness ==
    /\ recovered # <<>>
    /\ "running" \notin DOMAIN statusCounts
    /\ "failed" \in DOMAIN statusCounts
    /\ "queued" \in DOMAIN statusCounts

C9_NoSpawn == hist.preCancel => ~hist.spawned

C9_EndsCanceled ==
    [][(wpc = "returned" /\ wpc' # wpc /\ crashes' = crashes /\ hist.preCancel)
          => /\ wid \in DOMAIN records'
             /\ records'[wid].status = "canceled"
             /\ records'[wid].result_summary = hist.stored
             /\ records'[wid].attempts = hist.before + 1]_vars

C9_CancelBeforeSpawn == []C9_NoSpawn /\ C9_EndsCanceled

\* C9 witness: the second attempt of a prompt was canceled before the
\* checkpoint with restart requested; it is recorded as canceled, attempts 2.
C9_Witness ==
    /\ wpc = "requeue"
    /\ hist.preCancel
    /\ hist.before = 1
    /\ records[wid].status = "canceled"
    /\ records[wid].attempts = 2

\* C10: the worker thread never ends while the backend is up.
C10_WorkerNeverExits == wpc # "dead"

\* C11: a construction of the store over a document with running records leaves
\* no record running; each such record is failed with the interruption
\* summary, its log gets exactly one more block (the synthetic one), and its id
\* is in the recovered list exactly once; no other log or id is touched.
C11_GhostRecovery ==
    [][crashes' = crashes + 1 =>
          /\ \A id \in DOMAIN records' : records'[id].status # "running"
          /\ DOMAIN records' = DOMAIN disk
          /\ \A id \in DOMAIN disk :
                IF disk[id].status = "running"
                  THEN /\ records'[id].status = "failed"
                       /\ records'[id].result_summary = InterruptedSummary
                       /\ logs'[id] = Append(logs[id], "interrupted")
                       /\ Occurrences(id, recovered') = 1
                       /\ disk'[id] = records'[id]
                  ELSE /\ records'[id] = disk[id]
                       /\ logs'[id] = logs[id]
                       /\ Occurrences(id, recovered') = 0]_vars

\* C11 witness: the second attempt of a prompt was interrupted; its log holds
\* the block of the first attempt and the synthetic block.
C11_Witness ==
    /\ crashes = 1
    /\ \E id \in DOMAIN records :
          /\ recovered = <<id>>
          /\ logs[id] = <<"attempt", "interrupted">>
          /\ records[id].status = "failed"
          /\ records[id].attempts = 2
\* C12: a mutating operation whose write of the JSON document fails leaves the
\* records, the status counts and the FIFO as they were, and the persisted
\* document intact.
C12_PersistFailureRollsBack ==
    [][ioErrors' = ioErrors + 1 =>
          /\ records' = records
          /\ statusCounts' = statusCounts
          /\ fifo' = fifo
          /\ disk' = disk]_vars

\* the record set the store holds after loading a document
Loaded(doc) == _recover_inflight_prompts(doc)

\* C13: once every mutating operation has returned (and none failed), loading
\* the persisted document yields the in-memory record set, up to the rewrite
\* of running records by ghost recovery.
C13_PersistLoadRoundTrip ==
    (inflight = <<>> /\ writers = <<>> /\ ioErrors = 0) =>
        Loaded(disk) = Loaded(records)

C15_RestartRequeues ==
    [][/\ (wpc = "returned" /\ wpc' # wpc /\ crashes' = crashes)
            => (wpc' = "requeue" <=> hist.stored = CancelSummaryFor(TRUE))
       /\ (wpc = "requeue" /\ wpc' = "emit")
            => /\ wid \in DOMAIN records'
               /\ records'[wid].status = "queued"
               /\ Occurrences(wid, fifo') = 1]_vars


\* C16: after each change of a record's status by the worker (to running; to a
\* terminal status, and back to queued on restart) a prompt_update envelope for
\* the prompt goes out before the worker takes the next id.
C16_UpdateBroadcast ==
    [][crashes' = crashes =>
          /\ (wpc = "armed" /\ wpc' = "begun")
                => \E k \in DOMAIN events' : events'[k].type = "prompt_update"
          /\ (wpc = "emit" /\ wpc' = "idle")
                => LET sent == _emit_updates(<<>>, records, wid)
                   IN  \E k \in DOMAIN sent : sent[k].type = "prompt_update"]_vars

\* C17: the envelopes of an attempt end with prompt_update(terminal status),
\* queue_snapshot, health; prompt_update(running) comes before every
\* prompt_stream frame, and no frame comes after the terminal prompt_update.
C17_EnvelopeOrder ==
    [][(wpc = "emit" /\ wpc' = "idle" /\ crashes' = crashes) =>
          LET E == _emit_updates(events, records, wid)
              n == Len(E)
          IN  /\ n >= 4
              /\ E[n].type = "health"
              /\ E[n - 1].type = "queue_snapshot"
              /\ E[n - 2].type = "prompt_update"
              /\ E[n - 2].status \in TERMINAL_PROMPT_STATUSES
              /\ \E i \in 1..(n - 3) :
                    /\ E[i] = Envelope("prompt_update", "running")
                    /\ \A k \in 1..n : E[k].type = "prompt_stream" => (i < k /\ k < n - 2)]_vars


\* C18: a retry never targets a running record; it sets the record to queued,
\* clears started_at and the current wait, gives it a fresh enqueued_at, keeps
\* everything else (the attempt counter included), and the id is appended to
\* the FIFO once: by the worker at once, by an HTTP thread in its put.
C18_Retry ==
    [][/\ (clock' = clock + 1 /\ nextId' = nextId) =>
            \E id \in DOMAIN records :
               /\ records[id].status # "running"
               /\ records' = [records EXCEPT ![id] =
                                 [@ EXCEPT !.status = "queued", !.started_at = Null,
                                           !.current_wait_seconds = Null,
                                           !.enqueued_at = clock']]
               /\ records'[id].enqueued_at > records[id].enqueued_at
               /\ records'[id].attempts = records[id].attempts
               /\ \/ inflight' = Append(inflight, id) /\ fifo' = fifo
                  \/ fifo' = Append(fifo, id) /\ inflight' = inflight
       /\ (Len(inflight') < Len(inflight) /\ crashes' = crashes) =>
            \E k \in 1..Len(inflight) :
               /\ fifo' = Append(fifo, inflight[k])
               /\ inflight' = SubSeq(inflight, 1, k - 1)
                                 \o SubSeq(inflight, k + 1, Len(inflight))]_vars

\* C18 witness: a record that finished an attempt has been retried and put: it
\* is queued with its attempt counter kept, a later enqueued_at, no start time,
\* and one FIFO entry.
C18_Witness ==
    \E id \in DOMAIN records :
        /\ records[id].status = "queued"
        /\ records[id].attempts = 1
        /\ records[id].last_finished_at # Null
        /\ records[id].started_at = Null
        /\ records[id].current_wait_seconds = Null
        /\ records[id].enqueued_at = 2
        /\ Occurrences(id, fifo) = 1
        /\ inflight = <<>>

\* C19: delete removes a record only while it is queued; on a running or a
\* terminal record it is rejected with ValueError (answered as a client error)
\* and changes nothing; a removal decrements the queued count and leaves the
\* FIFO alone; a removed id never returns to the records, and the worker never
\* executes an id that is not in the records
C19_Delete ==
    /\ [](\A id \in DOMAIN records :
            records[id].status # "queued"
                => /\ DeleteRejection(records, id) = "ValueError"
                   /\ ~ENABLED delete_prompt(id))
    /\ []((wpc \in {"begun", "checked", "prepared", "running", "exited",
                    "decided", "finalized", "returned"} \/ children > 0)
            => wid \in DOMAIN records)
    /\ [][crashes' = crashes =>
            \A id \in 1..(nextId - 1) :
               /\ (id \in DOMAIN records /\ id \notin DOMAIN records')
                    => /\ records[id].status = "queued"
                       /\ records' = Pop(records, id)
                       /\ statusCounts' = _decrement_status(statusCounts, "queued")
                       /\ fifo' = fifo
               /\ id \notin DOMAIN records => id \notin DOMAIN records']_vars

\* a queued prompt was deleted after it was put, the worker took its FIFO
\* entry without executing it, and another prompt has run to a terminal status
C19_Witness ==
    /\ crashes = 0
    /\ inflight = <<>>
    /\ fifo = <<>>
    /\ wpc = "idle"
    /\ \E id \in 1..(nextId - 1) : id \notin DOMAIN records /\ logs[id] = <<>>
    /\ \E id \in DOMAIN records : records[id].status \in TERMINAL_PROMPT_STATUSES

C21_EmptySubmit ==
    /\ [](\A t \in SubmitTexts :
            strip(t) = <<>> => SubmitRejection(t) = "400" /\ ~ENABLED add_prompt(t))
    /\ [](\A id \in DOMAIN records : records[id].text # <<>>)
    /\ [][nextId' # nextId =>
            /\ DOMAIN records' = DOMAIN records \cup {nextId}
            /\ records'[nextId].text # <<>>
            /\ \E t \in SubmitTexts : strip(t) # <<>> /\ records'[nextId].text = strip(t)]_vars

\* one prompt has been submitted and a further submit with a proper text
\* would be accepted, while one with blanks is refused
C21_Witness ==
    /\ nextId = 2
    /\ 1 \in DOMAIN records
    /\ ENABLED add_prompt(<<" ", "o">>)
    /\ ~ENABLED add_prompt(<<" ", " ">>)

\* C22: in every state a running record has a started_at, and a record in a
\* terminal status has a last_finished_at and a result_summary that is set and
\* not the empty string
C22_RecordFields ==
    \A id \in DOMAIN records :
        /\ records[id].status = "running" => records[id].started_at # Null
        /\ records[id].status \in TERMINAL_PROMPT_STATUSES
              => /\ records[id].last_finished_at # Null
                 /\ records[id].result_summary \notin {Null, ""}

\* a record that was running at a restart was loaded and recovered as failed,
\* retried, and is in its second attempt
C22_Witness ==
    /\ crashes = 1
    /\ \E id \in DOMAIN records :
          /\ records[id].status = "running"
          /\ records[id].attempts = 2
          /\ records[id].started_at # Null
          /\ records[id].last_finished_at # Null
          /\ records[id].result_summary = InterruptedSummary

C24_OneViolation ==
    /\ [](tally.declared <= 1 /\ tally.statusWrites <= 1)
    /\ []((gpc = "exited" /\ violationInfo # Null) => guardExit = 86)
    /\ [][violationInfo # Null =>
            /\ violationInfo' = violationInfo
            /\ tally'.scans = tally.scans
            /\ tally'.reverts = tally.reverts
            /\ tally'.logWrites = tally.logWrites
            /\ tally'.statusWrites = tally.statusWrites
            /\ tally'.declared = tally.declared]_vars

\* a violation was declared on the first line, two more lines were read and
\* ignored, and the guard has exited with 86
C24_Witness ==
    /\ gpc = "exited"
    /\ guardExit = 86
    /\ violationInfo = "Scope guard blocked"
    /\ tally = [lines |-> 3, scans |-> 1, declared |-> 1, logWrites |-> 1,
                statusWrites |-> 1, reverts |-> 1]

\* C25: when begin_run fails for an attempt, no child is spawned for it, the
\* worker records the prompt as failed with the git error as its summary, an
\* attempt block has been appended to its log, and the worker thread goes on
C25_BeginRunFails ==
    /\ []((wpc \in {"exited", "finalized", "decided", "returned"} /\ ~run.skip /\ ~run.session)
            => ~hist.spawned /\ children = 0)
    /\ [][(wpc = "checked" /\ wpc' \notin {"checked", "prepared"} /\ crashes' = crashes)
            => wpc' = "exited"]_vars
    /\ [][(wpc = "returned" /\ wpc' # wpc /\ crashes' = crashes /\ ~run.skip /\ ~run.session)
            => /\ wpc' = "emit"
               /\ records'[wid].status = "failed"
               /\ records'[wid].result_summary = "Git branch preparation failed"
               /\ logs[wid] # <<>>
               /\ logs[wid][Len(logs[wid])] = "attempt"]_vars

\* C26: on each stream the first frame of a run is a reset frame, a done frame
\* is sent only once the attempt block is in the prompt log, no frame follows
\* a done frame, and when the run is over the last frame is a done frame
C26_StreamFrames ==
    \A stream \in {"stdout", "stderr"} :
        LET F == FramesOf(events, stream)
            n == Len(F)
        IN  n > 0 =>
              /\ F[1].status = "reset"
              /\ \A k \in 1..(n - 1) : F[k].status # "done"
              /\ F[n].status = "done"
                    => /\ logs[wid] # <<>>
                       /\ logs[wid][Len(logs[wid])] = "attempt"
              /\ wpc \in {"returned", "requeue", "emit", "dead"} => F[n].status = "done"


DataTypes == {"queue_snapshot", "prompt_update", "prompt_deleted", "prompt_stream", "health"}
Types(frames) == {frames[k].type : k \in DOMAIN frames}
Range(f) == {f[k] : k \in DOMAIN f}

\* C27: a connection whose user is unset has been written no queue_snapshot,
\* prompt_update, prompt_deleted, prompt_stream or health envelope, and a
\* message other than auth read from it is answered with at most an error
\* envelope and leaves its user unset.
C27_Unauthenticated ==
    /\ [](\A c \in Conns : conn[c].user = Null => Types(inbox[c]) \cap DataTypes = {})
    /\ [][\A c \in Conns, m \in ClientMessages :
            (conn[c].user = Null /\ WS_message(c, m)) =>
                /\ inbox'[c] \in {inbox[c], Append(inbox[c], ErrorMsg("authentication required"))}
                /\ conn'[c].user = Null]_vars

\* a broadcast has gone round its recipients and passed over a live connection
\* that had asked for something before authenticating
C27_Witness ==
    \E t \in Threads, c \in Conns :
        /\ bc[t].active /\ bc[t].i > Len(bc[t].recipients)
        /\ c \in Range(bc[t].recipients) \ bc[t].dead
        /\ \E d \in Conns : Msg(bc[t].type, bc[t].seq, t) \in Range(inbox[d])
        /\ conn[c].alive /\ conn[c].user = Null
        /\ inbox[c] = <<Msg("hello", 0, 0), ErrorMsg("authentication required")>>

\* C28: an auth message whose token is missing, empty, forged or expired is
\* answered with an error envelope and then a close frame carrying the
\* auth-failed code 4003 (as far as the writes succeed), the connection is no
\* longer alive afterwards, and an unset user stays unset.
C28_FailedAuth ==
    [][\A c \in Conns, token \in Tokens :
         ((token \in {Null, ""} \/ verify_token(token) = Null) /\ WS_auth(c, token)) =>
             /\ ~conn'[c].alive
             /\ \E e \in {ErrorMsg("auth token required"), ErrorMsg("invalid or expired token")} :
                    inbox'[c] \in {inbox[c], Append(inbox[c], e),
                                   inbox[c] \o <<e, Msg("close", 4003, 0)>>}
             /\ (conn[c].user = Null => conn'[c].user = Null)]_vars

\* C29: on every connection a queue_snapshot, prompt_update, prompt_stream or
\* health envelope comes after an auth_ok envelope, and a connection that is
\* through its authentication and still alive has been written auth_ok, then
\* the initial queue_snapshot, then the initial health envelope.
C29_AuthOrder ==
    \A c \in Conns :
        /\ \A k \in DOMAIN inbox[c] :
              inbox[c][k].type \in {"queue_snapshot", "prompt_update", "prompt_stream", "health"}
                  => \E j \in 1..(k - 1) : inbox[c][j].type = "auth_ok"
        /\ (conn[c].user # Null /\ conn[c].pc = "serve" /\ conn[c].alive) =>
              \E i, j, k \in DOMAIN inbox[c] :
                  /\ i < j /\ j < k
                  /\ inbox[c][i] = Msg("auth_ok", 0, 0)
                  /\ inbox[c][j] = Msg("queue_snapshot", 0, 0)
                  /\ inbox[c][k] = Msg("health", 0, 0)

\* C30: when a broadcast's loop is over, every recipient that was alive and
\* authenticated when it began and is still alive has been written the
\* envelope, whatever happened to the others; a recipient found not alive, or
\* whose write failed, is among the dead, which the end of the broadcast takes
\* out of the client set; a connection that is not alive is written nothing
\* more; and the envelopes of one broadcasting thread appear on every
\* connection in the order the thread issued them.
C30_BroadcastFailure ==
    /\ [](\A t \in Threads :
            (bc[t].active /\ bc[t].i > Len(bc[t].recipients)) =>
                \A c \in bc[t].eligible \ bc[t].dead :
                    conn[c].alive => Msg(bc[t].type, bc[t].seq, t) \in Range(inbox[c]))
    /\ [](\A c \in Conns : \A j, k \in DOMAIN inbox[c] :
            (j < k /\ inbox[c][j].thread # 0 /\ inbox[c][j].thread = inbox[c][k].thread)
                => inbox[c][j].seq < inbox[c][k].seq)
    /\ [][\A t \in Threads :
            /\ B_step(t) => LET c == bc[t].recipients[bc[t].i]
                            IN  ~conn'[c].alive => c \in bc'[t].dead
            /\ B_end(t) => clients' \cap bc[t].dead = {}]_vars
    /\ [][\A c \in Conns : ~conn[c].alive /\ conn[c].pc # "new" => inbox'[c] = inbox[c]]_vars

\* the second broadcast of a thread has gone round: the write to its first
\* recipient failed, and its second recipient holds both broadcasts in order
C30_Witness ==
    \E t \in Threads, c, d \in Conns :
        /\ bc[t].active /\ bc[t].seq = 2
        /\ bc[t].recipients = <<d, c>> /\ bc[t].i = 3
        /\ bc[t].dead = {d} /\ d \in bc[t].eligible
        /\ Msg(Broadcasts(t)[1], 1, t) \in Range(inbox[d])
        /\ Msg(Broadcasts(t)[2], 2, t) \notin Range(inbox[d])
        /\ \E j, k \in DOMAIN inbox[c] :
              j < k /\ inbox[c][j] = Msg(Broadcasts(t)[1], 1, t)
                    /\ inbox[c][k] = Msg(Broadcasts(t)[2], 2, t)

\* C31: a finalize_run that returns normally, with cleanup enabled and dry-run
\* off, for a session whose prompt branch holds commits made since begin_run,
\* leaves no prompt branch, the base branch checked out with a head that
\* descends from the base head of begin_run, and reports exactly the commits
\* the base branch gained, oldest first.
C31_Finalize ==
    [][(/\ session.active /\ ~session'.active
        /\ lastCall'.op = "finalize_run" /\ ~lastCall'.raised
        /\ discipline.cleanup_enabled /\ ~discipline.dry_run_mutations
        /\ repo.branch[PromptBranch] # session.base_commit
        /\ Ancestor(repo, session.base_commit, repo.branch[PromptBranch]))
        => /\ repo'.branch[PromptBranch] = 0
           /\ repo'.head = BaseBranch
           /\ ~_workspace_dirty(repo')
           /\ Ancestor(repo', session.base_commit, repo'.branch[BaseBranch])
           /\ Ancestor(repo', repo.branch[BaseBranch], repo'.branch[BaseBranch])
           /\ Range(lastCall'.commits) =
                  {c \in 1..Len(repo'.commits) :
                      /\ Ancestor(repo', c, repo'.branch[BaseBranch])
                      /\ ~Ancestor(repo', c, repo.branch[BaseBranch])}
           /\ \A j, k \in DOMAIN lastCall'.commits :
                  j < k => /\ lastCall'.commits[j] # lastCall'.commits[k]
                           /\ Ancestor(repo', lastCall'.commits[j], lastCall'.commits[k])]_vars

\* a cleanup has fast-forwarded the base branch by two prompt commits
C31_Witness ==
    /\ lastCall.op = "finalize_run" /\ ~lastCall.raised
    /\ Len(lastCall.commits) = 2
    /\ repo.branch[BaseBranch] = lastCall.commits[2]
    /\ repo.branch[PromptBranch] = 0 /\ repo.head = BaseBranch

PromptCommits(r) ==
    {commits \in RollbackLists :
        /\ commits # <<>>
        /\ \A k \in DOMAIN commits :
              /\ commits[k] \in 2..Len(r.commits)
              /\ Ancestor(r, commits[k], r.branch[BaseBranch])
              /\ k > 1 => Parent(r, commits[k]) = commits[k - 1]}

\* every revert of the list, newest first, succeeds on the base branch
RevertsSucceed(r, commits) ==
    RevertFrom(Switch(r, BaseBranch).repo, [discipline EXCEPT !.dry_run_mutations = FALSE],
               commits, Len(commits)).ok

\* C33: a rollback of a prompt's commits on a clean tree, dry-run off: when
\* every revert succeeds the call returns, the base branch has gained exactly
\* one commit, on top of its old head, whose tree is the tree before the
\* oldest of the commits, and the tree is clean; when a revert fails the call
\* raises, no commit is created, no branch moves, and no revert is left in
\* progress.
C33_Rollback ==
    [][\A commits \in PromptCommits(repo) :
         (/\ ~_workspace_dirty(repo) /\ ~discipline.dry_run_mutations
          /\ G_rollback(commits))
         => IF RevertsSucceed(repo, commits)
              THEN /\ ~lastCall'.raised
                   /\ Len(repo'.commits) = Len(repo.commits) + 1
                   /\ repo'.head = BaseBranch
                   /\ repo'.branch[BaseBranch] = Len(repo'.commits)
                   /\ lastCall'.rollback_commit = Len(repo'.commits)
                   /\ Parent(repo', Len(repo'.commits)) = repo.branch[BaseBranch]
                   /\ Tree(repo', Len(repo'.commits)) = Tree(repo, Parent(repo, commits[1]))
                   /\ ~_workspace_dirty(repo')
              ELSE /\ lastCall'.raised
                   /\ repo'.commits = repo.commits
                   /\ repo'.branch = repo.branch
                   /\ ~repo'.reverting /\ ~_workspace_dirty(repo')]_vars

\* C34: with dry-run enabled a begin_run, a finalize_run and a rollback leave
\* the repository (commits, branches, HEAD, index and working tree) as it was,
\* while what they read is the live repository: a dirty tree is still refused
\* and the session carries the base branch's present head.
C34_DryRun ==
    [][discipline.dry_run_mutations =>
         /\ (G_begin_run \/ G_finalize_run \/ \E commits \in RollbackLists : G_rollback(commits))
                => repo' = repo
         /\ G_begin_run =>
                /\ (_workspace_dirty(repo) /\ ~discipline.allow_dirty_workspace) => lastCall'.raised
                /\ ~lastCall'.raised => session'.base_commit = repo.branch[BaseBranch]]_vars

\* a dry-run rollback of two commits of the base branch has returned
C34_Witness ==
    /\ discipline.dry_run_mutations
    /\ lastCall.op = "rollback" /\ ~lastCall.raised
    /\ Len(lastCall.given) = 2 /\ lastCall.given \in PromptCommits(repo)
    /\ lastCall.rollback_commit = repo.branch[BaseBranch]

AfterRun == {"decided", "returned", "requeue", "emit", "idle"}

C37_CancelScoped ==
    /\ [](wpc \in AfterRun => cancelTarget = None /\ activePromptId = None)
    /\ [][(wpc = "begun" /\ wpc' = "exited") => hist.preCancel]_vars
    /\ []((wpc \in {"decided", "returned"} /\ run.canceled) => hist.stored # "")
    /\ [](wpc \in {"requeue", "emit", "idle"} => restartRequests = {})

\* C37 witness: a cancel with restart was accepted while the child ran; the
\* attempt is recorded as canceled and nothing of the cancel is left
C37_Witness ==
    /\ wpc = "requeue"
    /\ hist.spawned
    /\ ~hist.preCancel
    /\ hist.stored = CancelSummaryFor(TRUE)
    /\ records[wid].status = "canceled"
    /\ cancelTarget = None
    /\ restartRequests = {}

\* C38: at a command boundary scan() returns exactly the paths whose entry
\* (present with its (exists, mtime, size) state, or not listed) differs
\* between the baseline and the current snapshot; after the boundary the
\* baseline is the current snapshot; and a path is reported only if it was
\* written, deleted or staged since the boundary before.
C38_Scan ==
    [][DT_process_line =>
          /\ reported'[Len(reported')] =
                 {path \in ScanPaths : baseline[path] # _snapshot(files, index)[path]}
          /\ baseline' = _snapshot(files', index')
          /\ reported'[Len(reported')] \subseteq changed]_vars

\* C38 witness: the allowed path was reported at one boundary and, still
\* listed by git, not reported at the next
C38_Witness ==
    /\ reported = << {"a"}, {} >>
    /\ baseline["a"] # Absent
    /\ ~guardViolated

\* C39: the duration window holds at most DurationWindow samples, and they
\* are the samples observed last; the wait and run counts and sums kept with
\* it are the number and the sum of the non-null wait and run values in the
\* window.
RECURSIVE SumOf(_, _)
SumOf(q, field) ==
    IF q = <<>> THEN 0
    ELSE (IF Head(q)[field] # NoSeconds THEN Head(q)[field] ELSE 0) + SumOf(Tail(q), field)

CountOf(q, field) == Cardinality({k \in DOMAIN q : q[k][field] # NoSeconds})

C39_DurationWindow ==
    /\ Len(durations.samples) <= DurationWindow
    /\ durations.samples = LastWindow(observed)
    /\ durations.wait_count = CountOf(durations.samples, "wait")
    /\ durations.run_count = CountOf(durations.samples, "run")
    /\ durations.wait_sum = SumOf(durations.samples, "wait")
    /\ durations.run_sum = SumOf(durations.samples, "run")

\* C39 witness: a sample with a wait and a run value has been evicted
C39_Witness ==
    /\ Len(observed) = DurationWindow + 1
    /\ observed[1].wait = 1
    /\ observed[1].run = 1
    /\ Len(durations.samples) = DurationWindow

\* C40: of the accept_registration calls that carry one pairing code at most
\* one returns a bundle, and a call refused for its code leaves the identity
\* and the pairing state as they were.
C40_AcceptedOnce ==
    /\ [](\A a, b \in succeeded : a.code = b.code => a = b)
    /\ [][\A t \in Callers, code \in 1..MaxCodes :
            (AR_check(t, code) /\ caller' = caller)
               => (identity' = identity /\ pairing' = pairing)]_vars

Next ==
    \/ \E text \in SubmitTexts : add_prompt(text)
    \/ \E id \in Ids : retry_prompt(id)
    \/ \E k \in 1..MaxInflight : PutAndPersist(k)
    \/ \E id \in Ids, new_text \in EditTexts : edit_prompt(id, new_text)
    \/ \E id \in Ids : delete_prompt(id)
    \/ \E id \in Ids, restart \in BOOLEAN : request_cancel(id, restart)
    \/ W_take
    \/ W_begin
    \/ R_checkpoint
    \/ R_begin_run
    \/ R_spawn
    \/ ChildModifyDeny
    \/ ChildCommit
    \/ process_line
    \/ \E code \in {0, 1} : ChildExit(code)
    \/ R_wait
    \/ R_finalize
    \/ R_decide
    \/ R_log
    \/ W_mark
    \/ W_requeue
    \/ W_emit
    \/ Restart

Spec == Init /\ [][Next]_vars

\* the store with _persist at the granularity of its two steps (serialise
\* under the lock, write outside it) and with writes of the JSON document
\* that may raise OSError; the worker goes as far as begin_attempt
NextIO ==
    \/ \E text \in SubmitTexts : add_prompt(text)
    \/ \E id \in Ids : retry_prompt(id)
    \/ \E k \in 1..MaxInflight : PutAndSnapshot(k)
    \/ \E j \in 1..MaxInflight : WriteDocument(j)
    \/ \E k \in 1..MaxInflight : PutAndPersist_fails(k)
    \/ \E id \in Ids, new_text \in EditTexts : edit_prompt(id, new_text)
    \/ \E id \in Ids, new_text \in EditTexts : edit_prompt_fails(id, new_text)
    \/ \E id \in Ids : delete_prompt(id)
    \/ \E id \in Ids : delete_prompt_fails(id)
    \/ W_take
    \/ W_begin
    \/ W_begin_fails

SpecIO == Init /\ [][NextIO]_vars
\* the scope guard's classification on its own: every manifest and every path
NextScope ==
    \/ find_violations

SpecScope == InitScope /\ [][NextScope]_vars
\* one guard process around one inner command
NextGuard ==
    \/ G_main
    \/ G_spawn
    \/ ChildModifyDeny
    \/ ChildCommit
    \/ G_process_line
    \/ \E code \in {0, 1} : G_child_exit(code)
    \/ G_return

SpecGuard == Init /\ [][NextGuard]_vars
\* the worker and the runner with the child's output, without edits, retries,
\* deletes and restarts from outside
NextStream ==
    \/ \E text \in SubmitTexts : add_prompt(text)
    \/ \E k \in 1..MaxInflight : PutAndPersist(k)
    \/ \E id \in Ids, restart \in BOOLEAN : request_cancel(id, restart)
    \/ W_take
    \/ W_begin
    \/ R_checkpoint
    \/ R_begin_run
    \/ R_spawn
    \/ \E stream \in {"stdout", "stderr"} : R_pump(stream)
    \/ \E code \in {0, 1} : ChildExit(code)
    \/ R_wait
    \/ R_finalize
    \/ R_decide
    \/ R_log
    \/ W_mark
    \/ W_requeue
    \/ W_emit

SpecStream == Init /\ [][NextStream]_vars
\* the WebSocket hub: connections, their messages, and the broadcasts of the
\* worker and the HTTP threads
NextHub ==
    \/ \E c \in Conns : WS_connect(c)
    \/ \E c \in Conns, m \in ClientMessages : WS_message(c, m)
    \/ \E c \in Conns, token \in Tokens : WS_auth(c, token)
    \/ \E c \in Conns : WS_auth_ok(c)
    \/ \E c \in Conns : WS_initial(c)
    \/ \E c \in Conns : WS_disconnect(c)
    \/ \E c \in Conns : WS_finish(c)
    \/ \E t \in Threads : B_start(t)
    \/ \E t \in Threads : B_step(t)
    \/ \E t \in Threads : B_end(t)

SpecHub == Init /\ [][NextHub]_vars
\* the branch discipline, the Agent CLI and a user on one repository
NextGit ==
    \/ G_begin_run
    \/ G_finalize_run
    \/ \E commits \in RollbackLists : G_rollback(commits)
    \/ \E c \in Contents : G_edit(c)
    \/ G_commit
    \/ \E b \in BranchNames : G_switch(b)

SpecGit == InitGit /\ [][NextGit]_vars
\* the threads that ask for refreshes and the display thread; a thread inside
\* request_refresh goes on, and the display thread takes what is queued
NextDisplay ==
    \/ \E t \in Requesters : D_request(t)
    \/ \E t \in Requesters : D_flush_get(t)
    \/ \E t \in Requesters : D_flush_empty(t)
    \/ \E t \in Requesters : D_retry(t)
    \/ D_refresh

SpecDisplay ==
    /\ Init /\ [][NextDisplay]_vars
    /\ WF_vars(D_refresh)
    /\ \A t \in Requesters : WF_vars(D_flush_get(t) \/ D_flush_empty(t) \/ D_retry(t))
\* the tracker of one guard process, the Agent CLI at work in the tree
NextTracker ==
    \/ \E path \in ScanPaths, stamp \in 1..MaxStamp : DT_write(path, stamp)
    \/ \E path \in ScanPaths : DT_delete(path)
    \/ \E path \in ScanPaths : DT_stage(path)
    \/ DT_process_line
    \/ DT_scan_fails

SpecTracker == InitTracker /\ [][NextTracker]_vars
\* the duration window of one store
NextDurations ==
    \E wait_seconds \in Seconds, run_seconds \in Seconds : DW_append(wait_seconds, run_seconds)

SpecDurations == InitDurations /\ [][NextDurations]_vars
\* the identity manager with concurrent registration calls
NextPairing ==
    \/ \E t \in Callers, code \in 1..MaxCodes : AR_check(t, code)
    \/ \E t \in Callers : AR_bad_bundle(t)
    \/ \E t \in Callers : AR_install(t)
    \/ AR_reset

SpecPairing == Init /\ [][NextPairing]_vars
====
